---- MODULE Spec2Model ----
(***************************************************************************)
(* swagger2idl: an OpenAPI document is lowered into an IDL file (Thrift or *)
(* Protobuf) and the file is serialized to text.                           *)
(*                                                                         *)
(* Strings are sequences of one-character strings, so that the case        *)
(* conversions, the path rewriting and the name compositions are computed  *)
(* character by character as the Go code computes them.  Go maps are       *)
(* sequences of <<key, value>> pairs in the order one run happens to visit *)
(* them.  Go pointers are values: no IR node is changed after it has been  *)
(* handed to the registry, except by the registry's merge and by the       *)
(* serializer's in-place sorts, both of which are modelled.                *)
(***************************************************************************)
EXTENDS Integers, Sequences, FiniteSets, TLC

VARIABLES
    target,     \* "thrift" | "proto": which converter and generator run
    naming,     \* ConvertOption.NamingOption (namingOption)
    apiOption,  \* ConvertOption.ApiOption (apiOption)
    docTags,    \* spec.Tags of the input document (names, in document order)
    file,       \* the IR root: ThriftFile / ProtoFile
    pc,         \* position of the run in main's Action
    visitedC,   \* component schemas visited so far, in visiting order
    visitedO,   \* operations visited so far, in visiting order
    last,       \* what the most recent operation lowering returned
    out,        \* the text produced by Generate, as a sequence of lines
    sink        \* the output file: "none" | "open" | "written" | "closed"

vars == <<target, naming, apiOption, docTags, file, pc, visitedC, visitedO, last, out, sink>>

(***************************************************************************)
(* Characters                                                              *)
(***************************************************************************)
LowerAlpha ==
    <<"a","b","c","d","e","f","g","h","i","j","k","l","m",
      "n","o","p","q","r","s","t","u","v","w","x","y","z">>

UpperAlpha ==
    <<"A","B","C","D","E","F","G","H","I","J","K","L","M",
      "N","O","P","Q","R","S","T","U","V","W","X","Y","Z">>

DigitChars == {"0","1","2","3","4","5","6","7","8","9"}

AlphaIdx == DOMAIN LowerAlpha

CapChars == {UpperAlpha[i] : i \in AlphaIdx}

LowChars == {LowerAlpha[i] : i \in AlphaIdx}

IsCap(c) == c \in CapChars

IsLow(c) == c \in LowChars

IsNum(c) == c \in DigitChars

\* v += 'A'; v -= 'a'
UpperOf(c) ==
    IF IsLow(c) THEN UpperAlpha[CHOOSE i \in AlphaIdx : LowerAlpha[i] = c] ELSE c

\* v += 'a'; v -= 'A'
LowerOf(c) ==
    IF IsCap(c) THEN LowerAlpha[CHOOSE i \in AlphaIdx : UpperAlpha[i] = c] ELSE c

\* regexp class \w and the class [a-zA-Z0-9_] of FormatStr
IsWordChar(c) == IsCap(c) \/ IsLow(c) \/ IsNum(c) \/ c = "_"

RECURSIVE Flatten(_)
\* strings.Join(parts, "")
Flatten(ss) == IF ss = <<>> THEN <<>> ELSE Head(ss) \o Flatten(Tail(ss))

\* v bound once for the steps that follow it
With(v, Op(_)) == CHOOSE y \in {Op(x) : x \in {v}} : TRUE

RECURSIVE TrimLeft(_)
TrimLeft(s) == IF s # <<>> /\ Head(s) = " " THEN TrimLeft(Tail(s)) ELSE s

RECURSIVE TrimRight(_)
TrimRight(s) ==
    IF s # <<>> /\ s[Len(s)] = " " THEN TrimRight(SubSeq(s, 1, Len(s) - 1)) ELSE s

\* strings.TrimSpace
TrimSpace(str) == With(str, LAMBDA s : TrimRight(TrimLeft(s)))

(***************************************************************************)
(* utils: naming policy                                                    *)
(***************************************************************************)
\* utils.ToUpperCase: first letter upper-cased, the rest unchanged
ToUpperCase(str) ==
    With(str, LAMBDA s : IF Len(s) = 0 THEN s ELSE <<UpperOf(s[1])>> \o Tail(s))

\* utils.FormatStr: ' ', '/', '-' become '_', then every character outside
\* [a-zA-Z0-9_] is removed
FormatStr(str) ==
    LET rep(c) == IF c \in {" ", "/", "-"} THEN "_" ELSE c
        piece(c) == IF IsWordChar(rep(c)) THEN <<rep(c)>> ELSE <<>>
    IN  With(str, LAMBDA s : Flatten([i \in DOMAIN s |-> piece(s[i])]))

\* strcase.ToCamel (toCamelInitCase with initCase = true and no acronym
\* configured), the library call made by ToPascaleCase: a letter after a
\* separator or a digit is upper-cased, a capital that follows a capital is
\* lower-cased, separators are dropped, other characters are dropped too.
CamelPiece(s, i) ==
    LET \* capNext and prevIsCap as the loop holds them on reaching byte i
        capNext == i = 1 \/ IsNum(s[i - 1]) \/ s[i - 1] \in {"_", " ", "-", "."}
        prevIsCap == i > 1 /\ IsCap(s[i - 1])
        c == s[i]
        v == IF capNext THEN UpperOf(c)
             ELSE IF prevIsCap /\ IsCap(c) THEN LowerOf(c)
             ELSE c
    IN  IF IsCap(c) \/ IsLow(c) \/ IsNum(c) THEN <<v>> ELSE <<>>

ToCamel(str) ==
    With(TrimSpace(str), LAMBDA s : Flatten([i \in DOMAIN s |-> CamelPiece(s, i)]))

\* utils.ToPascaleCase
ToPascaleCase(name) == ToUpperCase(ToCamel(name))

\* utils.ToScreamingDelimited(s, '_', "", false): what one input byte
\* contributes to the output, given its neighbours
SnakePiece(s, i) ==
    LET c == s[i]
        vIsCap == IsCap(c)
        vIsLow == IsLow(c)
        v == LowerOf(c)
        vIsNum == IsNum(v)
        hasNext == i + 1 <= Len(s)
        next == IF hasNext THEN s[i + 1] ELSE " "
        nextIsCap == hasNext /\ IsCap(next)
        nextIsLow == hasNext /\ IsLow(next)
        nextIsNum == hasNext /\ IsNum(next)
        boundary == \/ (vIsCap /\ (nextIsLow \/ nextIsNum))
                    \/ (vIsLow /\ (nextIsCap \/ nextIsNum))
                    \/ (vIsNum /\ (nextIsCap \/ nextIsLow))
        prevIsCap == i > 1 /\ IsCap(s[i - 1])
        lead == IF vIsCap /\ nextIsLow /\ prevIsCap THEN <<"_">> ELSE <<>>
        plain == IF v \in {" ", "_", "-", "."} THEN <<"_">> ELSE <<v>>
    IN  IF hasNext /\ boundary
        THEN IF ~(vIsLow /\ nextIsNum) /\ ~(vIsCap /\ nextIsNum)
             THEN lead \o <<v>>
                  \o (IF vIsLow \/ vIsNum \/ nextIsNum THEN <<"_">> ELSE <<>>)
             ELSE lead \o plain
        ELSE plain

ToScreamingDelimited(str) ==
    With(TrimSpace(str), LAMBDA s : Flatten([i \in DOMAIN s |-> SnakePiece(s, i)]))

\* utils.ToSnake / utils.ToDelimited
ToSnake(s) == ToScreamingDelimited(s)

\* utils.ToSnakeCase
ToSnakeCase(name) == ToSnake(FormatStr(name))

RECURSIVE LastSegment(_)
\* utils.ExtractMessageNameFromRef: the part after the last '/'
LastSegment(ref) ==
    IF \E i \in DOMAIN ref : ref[i] = "/"
    THEN LastSegment(Tail(ref))
    ELSE ref

\* the reference string taken whole as the name
WholeRef(ref) == ref

\* utils.ExtractMessageNameFromRef: what follows the last "/" of the reference
ExtractMessageNameFromRef(ref) == LastSegment(ref)

(***************************************************************************)
(* String constants of the program                                         *)
(***************************************************************************)
Quote == "\""

\* fmt.Sprintf("%q", s) for the strings of this model (no escapes needed)
Quoted(s) == <<Quote>> \o s \o <<Quote>>

\* fmt.Sprintf("%d", n) for the small positive numbers used as indexes
DigitSeq == <<"0","1","2","3","4","5","6","7","8","9">>

RECURSIVE Itoa(_)
Itoa(n) == IF n < 10 THEN <<DigitSeq[n + 1]>> ELSE Itoa(n \div 10) \o <<DigitSeq[(n % 10) + 1]>>

sString == <<"s","t","r","i","n","g">>
sBinary == <<"b","i","n","a","r","y">>
sI32 == <<"i","3","2">>
sI64 == <<"i","6","4">>
sFloat == <<"f","l","o","a","t">>
sDouble == <<"d","o","u","b","l","e">>
sBool == <<"b","o","o","l">>
sVoid == <<"v","o","i","d">>
sEnum == <<"E","n","u","m">>
sItem == <<"I","t","e","m">>
sOneOf == <<"O","n","e","O","f">>
sAllOf == <<"A","l","l","O","f">>
sAnyOf == <<"A","n","y","O","f">>
sOption == <<"O","p","t","i","o","n">>
sPart == <<"P","a","r","t">>
sUField == <<"_","f","i","e","l","d">>
sRequest == <<"R","e","q","u","e","s","t">>
sResponse == <<"R","e","s","p","o","n","s","e">>
sResponseU == <<"R","e","s","p","o","n","s","e","_">>
sAdditionalProperties ==
    <<"A","d","d","i","t","i","o","n","a","l","P","r","o","p","e","r","t","i","e","s">>
sadditionalProperties ==
    <<"a","d","d","i","t","i","o","n","a","l","P","r","o","p","e","r","t","i","e","s">>
sMapOpen == <<"m","a","p","<","s","t","r","i","n","g",","," ">>
sMapClose == <<">">>
sDefaultService ==
    <<"D","e","f","a","u","l","t","S","e","r","v","i","c","e">>
sMethod == <<"M","e","t","h","o","d">>
sApiDot == <<"a","p","i",".">>
sApiBody == <<"a","p","i",".","b","o","d","y">>
sApiForm == <<"a","p","i",".","f","o","r","m">>
sApiHeader == <<"a","p","i",".","h","e","a","d","e","r">>
AppJson == <<"a","p","p","l","i","c","a","t","i","o","n","/","j","s","o","n">>
AppForm ==
    <<"a","p","p","l","i","c","a","t","i","o","n","/","x","-","w","w","w","-",
      "f","o","r","m","-","u","r","l","e","n","c","o","d","e","d">>
MultipartForm ==
    <<"m","u","l","t","i","p","a","r","t","/","f","o","r","m","-","d","a","t","a">>
sDate == <<"d","a","t","e">>
sDateTime == <<"d","a","t","e","-","t","i","m","e">>
sByte == <<"b","y","t","e">>
sInt32 == <<"i","n","t","3","2">>
sInt64 == <<"i","n","t","6","4">>

\* converter.go const block
EmptyProtoFile ==
    <<"g","o","o","g","l","e","/","p","r","o","t","o","b","u","f","/",
      "e","m","p","t","y",".","p","r","o","t","o">>
EmptyMessage ==
    <<"g","o","o","g","l","e",".","p","r","o","t","o","b","u","f",".","E","m","p","t","y">>
apiProtoFile == <<"a","p","i",".","p","r","o","t","o">>
TimestampProtoFile ==
    <<"g","o","o","g","l","e","/","p","r","o","t","o","b","u","f","/",
      "t","i","m","e","s","t","a","m","p",".","p","r","o","t","o">>
TimestampType ==
    <<"g","o","o","g","l","e",".","p","r","o","t","o","b","u","f",".",
      "T","i","m","e","s","t","a","m","p">>
pInt32 == <<"i","n","t","3","2">>
pInt64 == <<"i","n","t","6","4">>

\* methodToOption
MethodVerbs == {<<"G","E","T">>, <<"P","O","S","T">>, <<"P","U","T">>,
                <<"P","A","T","C","H">>, <<"D","E","L","E","T","E">>,
                <<"H","E","A","D">>, <<"O","P","T","I","O","N","S">>}

ToLowerAll(s) == [i \in DOMAIN s |-> LowerOf(s[i])]

MethodToOption(method) == sApiDot \o ToLowerAll(method)

(***************************************************************************)
(* IR nodes                                                                *)
(***************************************************************************)
NewOption(name, value) == [Name |-> name, Value |-> value]

NewField(name, type) ==
    [Name |-> name, Type |-> type, Repeated |-> FALSE, Options |-> <<>>]

\* thrift.ThriftStruct / thrift.ThriftUnion
NewStruct(name) == [Name |-> name, Fields |-> <<>>]

\* protobuf.ProtoMessage
NewMessage(name) ==
    [Name |-> name, Fields |-> <<>>, Messages |-> <<>>, Enums |-> <<>>]

NewEnum(name, values) ==
    [Name |-> name,
     Values |-> [i \in DOMAIN values |-> [Index |-> i - 1, Value |-> values[i]]]]

NewService(name) == [Name |-> name, Methods |-> <<>>]

\* NewThriftConverter / NewProtoConverter: the empty IR root.  Imports holds
\* ThriftFile.Includes or ProtoFile.Imports, Structs holds ThriftFile.Structs
\* or ProtoFile.Messages.
EmptyFile ==
    [Imports |-> <<>>, Structs |-> <<>>, Enums |-> <<>>, Unions |-> <<>>,
     Services |-> <<>>]

Names(seq) == [i \in DOMAIN seq |-> seq[i].Name]

HasName(seq, name) == \E i \in DOMAIN seq : seq[i].Name = name

\* index of the first element called name
FirstNamed(seq, name) ==
    CHOOSE i \in DOMAIN seq :
        seq[i].Name = name /\ \A j \in 1..(i - 1) : seq[j].Name # name

RECURSIVE SelectSeqBy(_, _)
\* the elements of seq whose Name is not in names, in order
SelectSeqBy(seq, names) ==
    IF seq = <<>> THEN <<>>
    ELSE (IF Head(seq).Name \in names THEN <<>> ELSE <<Head(seq)>>)
         \o SelectSeqBy(Tail(seq), names)

(***************************************************************************)
(* Declaration registry                                                    *)
(***************************************************************************)
RECURSIVE ReplaceOrAppend(_, _)
\* the fields with each incoming field put in the place of the field of its
\* name, or appended when there is none
ReplaceOrAppend(fields, incoming) ==
    IF incoming = <<>> THEN fields
    ELSE ReplaceOrAppend(
             IF HasName(fields, Head(incoming).Name)
             THEN [k \in DOMAIN fields |->
                      IF fields[k].Name = Head(incoming).Name THEN Head(incoming)
                      ELSE fields[k]]
             ELSE Append(fields, Head(incoming)),
             Tail(incoming))

\* a registry whose merge lets the incoming field replace the registered one
addMessageReplacing(f, message) ==
    IF HasName(f.Structs, message.Name)
    THEN [f EXCEPT !.Structs[FirstNamed(f.Structs, message.Name)].Fields =
             ReplaceOrAppend(@, message.Fields)]
    ELSE [f EXCEPT !.Structs = Append(@, message)]

\* ThriftConverter.addMessageToThrift: a struct whose Name is registered is
\* merged into the first struct of that name (only fields whose Name the
\* existing struct does not have are appended); otherwise it is appended.
addMessageToThrift(f, message) ==
    IF HasName(f.Structs, message.Name)
    THEN LET i == FirstNamed(f.Structs, message.Name)
             fieldNames == {f.Structs[i].Fields[k].Name : k \in DOMAIN f.Structs[i].Fields}
         IN  [f EXCEPT !.Structs[i].Fields = @ \o SelectSeqBy(message.Fields, fieldNames)]
    ELSE [f EXCEPT !.Structs = Append(@, message)]

\* ProtoConverter.addMessageToProto: as above, and the nested messages and
\* nested enums are merged by name in the same way.
addMessageToProto(f, message) ==
    IF HasName(f.Structs, message.Name)
    THEN LET i == FirstNamed(f.Structs, message.Name)
             ex == f.Structs[i]
             fieldNames == {ex.Fields[k].Name : k \in DOMAIN ex.Fields}
             messageNames == {ex.Messages[k].Name : k \in DOMAIN ex.Messages}
             enumNames == {ex.Enums[k].Name : k \in DOMAIN ex.Enums}
         IN  [f EXCEPT !.Structs[i] =
                 [ex EXCEPT !.Fields = @ \o SelectSeqBy(message.Fields, fieldNames),
                            !.Messages = @ \o SelectSeqBy(message.Messages, messageNames),
                            !.Enums = @ \o SelectSeqBy(message.Enums, enumNames)]]
    ELSE [f EXCEPT !.Structs = Append(@, message)]

\* ThriftConverter.addEnumToThrift / ProtoConverter.addEnumToProto
addEnumToThrift(f, enum) == [f EXCEPT !.Enums = Append(@, enum)]

\* ThriftConverter.addUnionToThrift
addUnionToThrift(f, union) == [f EXCEPT !.Unions = Append(@, union)]

\* ThriftConverter.AddThriftInclude / ProtoConverter.AddProtoImport
AddProtoImport(f, importFile) ==
    IF \E i \in DOMAIN f.Imports : f.Imports[i] = importFile
    THEN f
    ELSE [f EXCEPT !.Imports = Append(@, importFile)]

\* addFieldIfNotExists
addFieldIfNotExists(fields, field) ==
    IF HasName(fields, field.Name) THEN fields ELSE Append(fields, field)

RECURSIVE addFieldsIfNotExist(_, _)
\* addFieldIfNotExists for each field of a list, in order
addFieldsIfNotExist(fields, new) ==
    IF new = <<>> THEN fields
    ELSE addFieldsIfNotExist(addFieldIfNotExists(fields, Head(new)), Tail(new))

\* addMessageIfNotExists
addMessageIfNotExists(messages, nestedMessage) ==
    IF HasName(messages, nestedMessage.Name) THEN messages
    ELSE Append(messages, nestedMessage)

\* methodExistsInService
methodExistsInService(service, methodName) == HasName(service.Methods, methodName)

\* findOrCreateService: the services with a new, empty service appended when
\* none is called serviceName; the caller then uses the first of that name.
findOrCreateService(services, serviceName) ==
    IF HasName(services, serviceName) THEN services
    ELSE Append(services, NewService(serviceName))

(***************************************************************************)
(* Schema documents (openapi3)                                             *)
(***************************************************************************)
\* openapi3.SchemaRef.  ref: the $ref string or <<>>; nil: Value == nil;
\* type: "" when Value.Type is nil; items / addl: <<>> (nil) or <<schema>>;
\* props: Properties as <<name, schema>> pairs in visiting order.
SchemaOf(type) ==
    [ref |-> <<>>, nil |-> FALSE, type |-> type, format |-> <<>>, enum |-> <<>>,
     items |-> <<>>, props |-> <<>>, addl |-> <<>>,
     oneOf |-> <<>>, allOf |-> <<>>, anyOf |-> <<>>]

RefPrefix ==
    <<"#","/","c","o","m","p","o","n","e","n","t","s","/","s","c","h","e","m","a","s","/">>

RefTo(name) == [SchemaOf("") EXCEPT !.ref = RefPrefix \o name]

\* the result of one lowering: kind is "field", "struct", "enum", "union" or
\* "error"; v the node; f the IR root after it; p the parent after it (proto)
Lowered(kind, v, f, p) == [kind |-> kind, v |-> v, f |-> f, p |-> p]

SchemaTypeRequired == "schema type is required"

\* ThriftConverter.applyNamingOption
applyNamingOption(name) == IF naming THEN ToPascaleCase(name) ELSE name

(***************************************************************************)
(* Thrift: schema lowering                                                 *)
(***************************************************************************)
Err(f) == Lowered("error", SchemaTypeRequired, f, <<>>)

\* the enum branch of the string / integer / number cases
ThriftEnumOf(schema, thriftName, hasParent) ==
    LET name == IF hasParent THEN applyNamingOption(ToUpperCase(thriftName))
                ELSE thriftName
    IN  NewEnum(name \o sEnum, schema.enum)

\* what a lowered branch, item or property contributes as a type name, and
\* the registry after its registration
ThriftRegister(r) ==
    CASE r.kind = "struct" -> addMessageToThrift(r.f, r.v)
      [] r.kind = "enum" -> addEnumToThrift(r.f, r.v)
      [] r.kind = "union" -> addUnionToThrift(r.f, r.v)
      [] OTHER -> r.f

RECURSIVE ConvertSchemaToThriftType(_, _, _, _)
RECURSIVE ThriftBranches(_, _, _, _, _, _, _)
RECURSIVE ThriftProperties(_, _, _, _)

\* what a lowered branch adds to the fields of its union or struct: a Field
\* as it is, a declaration as a field <Name>_field of its type
ThriftBranchField(fields, r) ==
    IF r.kind = "field" THEN Append(fields, r.v)
    ELSE Append(fields, NewField(r.v.Name \o sUField, r.v.Name))

\* the loop shared by handleOneOf, handleAllOf and handleAnyOf: branch k is
\* lowered as <thriftName><word><k> and a declaration it yields is
\* registered.  Returns <<ok, fields, f>>.
ThriftBranches(schemas, k, word, thriftName, hasParent, fields, f) ==
    IF k > Len(schemas) THEN <<TRUE, fields, f>>
    ELSE With(ConvertSchemaToThriftType(schemas[k], thriftName \o word \o Itoa(k),
                                        hasParent, f),
              LAMBDA r :
                  IF r.kind = "error" THEN <<FALSE, fields, r.f>>
                  ELSE ThriftBranches(schemas, k + 1, word, thriftName, hasParent,
                                      ThriftBranchField(fields, r), ThriftRegister(r)))

\* the declaration a combinator lowers to, given what its loop returned
ThriftCombined(kind, name, b) ==
    IF b[1] THEN Lowered(kind, [NewStruct(name) EXCEPT !.Fields = b[2]], b[3], <<>>)
    ELSE Err(b[3])

\* ThriftConverter.handleOneOf: a union named <thriftName>OneOf
handleOneOf(schemas, thriftName, hasParent, f) ==
    With(ThriftBranches(schemas, 1, sOption, thriftName, hasParent, <<>>, f),
         LAMBDA b : ThriftCombined("union", thriftName \o sOneOf, b))

\* ThriftConverter.handleAllOf: a struct named <thriftName>AllOf
handleAllOf(schemas, thriftName, hasParent, f) ==
    With(ThriftBranches(schemas, 1, sPart, thriftName, hasParent, <<>>, f),
         LAMBDA b : ThriftCombined("struct", thriftName \o sAllOf, b))

\* ThriftConverter.handleAnyOf: a struct named <thriftName>AnyOf
handleAnyOf(schemas, thriftName, hasParent, f) ==
    With(ThriftBranches(schemas, 1, sOption, thriftName, hasParent, <<>>, f),
         LAMBDA b : ThriftCombined("struct", thriftName \o sAnyOf, b))

\* the field an object gets for a lowered property
ThriftPropertyField(r, propName) ==
    CASE r.kind = "field" -> r.v
      [] r.kind = "struct" ->
           NewField((IF naming THEN ToSnakeCase(r.v.Name) ELSE <<>>) \o sUField, r.v.Name)
      [] OTHER -> NewField(applyNamingOption(propName), r.v.Name)

\* the property loop of the object case: <<ok, fields, f>>
ThriftProperties(props, k, fields, f) ==
    IF k > Len(props) THEN <<TRUE, fields, f>>
    ELSE With(ConvertSchemaToThriftType(props[k][2], props[k][1], TRUE, f),
              LAMBDA r :
                  IF r.kind = "error" THEN <<FALSE, fields, r.f>>
                  ELSE ThriftProperties(props, k + 1,
                           Append(fields, ThriftPropertyField(r, props[k][1])),
                           ThriftRegister(r)))

\* the array case, given the lowered items
ThriftArrayOf(r, name) ==
    IF r.kind = "error" THEN r
    ELSE Lowered("field",
                 [NewField(name, IF r.kind = "field" THEN r.v.Type ELSE r.v.Name)
                     EXCEPT !.Repeated = TRUE],
                 ThriftRegister(r), <<>>)

\* the object case, given the fields of its properties and the lowered
\* additionalProperties
ThriftMapOf(name, fields, a) ==
    IF a.kind = "error" THEN a
    ELSE Lowered("struct",
                 [NewStruct(name) EXCEPT !.Fields =
                     Append(fields,
                            NewField(sadditionalProperties,
                                     sMapOpen
                                     \o (IF a.kind \in {"struct", "enum"} THEN a.v.Name
                                         ELSE sString)
                                     \o sMapClose))],
                 a.f, <<>>)

\* the name of the struct the object case builds
ThriftStructName(thriftName, hasParent) ==
    IF hasParent THEN applyNamingOption(ToUpperCase(thriftName)) ELSE thriftName

\* the default ThriftField built when no case set a result
ThriftDefault(name, thriftType, f) == Lowered("field", NewField(name, thriftType), f, <<>>)

\* ThriftConverter.ConvertSchemaToThriftType
ConvertSchemaToThriftType(schemaRef, thriftName, hasParent, f) ==
    IF schemaRef.ref # <<>>
    THEN With(ExtractMessageNameFromRef(schemaRef.ref),
              LAMBDA refName : ThriftDefault(applyNamingOption(refName), refName, f))
    ELSE IF schemaRef.nil THEN Err(f)
    ELSE IF Len(schemaRef.oneOf) > 0
    THEN handleOneOf(schemaRef.oneOf, thriftName, hasParent, f)
    ELSE IF Len(schemaRef.allOf) > 0
    THEN handleAllOf(schemaRef.allOf, thriftName, hasParent, f)
    ELSE IF Len(schemaRef.anyOf) > 0
    THEN handleAnyOf(schemaRef.anyOf, thriftName, hasParent, f)
    ELSE With(<<schemaRef, applyNamingOption(thriftName)>>,
         LAMBDA sn :
         LET schema == sn[1]
             name == sn[2]
         IN
         CASE schema.type = "string" ->
                IF schema.format \in {sDate, sDateTime} THEN ThriftDefault(name, sString, f)
                ELSE IF schema.format \in {sByte, sBinary} THEN ThriftDefault(name, sBinary, f)
                ELSE IF Len(schema.enum) # 0
                THEN Lowered("enum", ThriftEnumOf(schema, thriftName, hasParent), f, <<>>)
                ELSE ThriftDefault(name, sString, f)
           [] schema.type = "integer" ->
                IF Len(schema.enum) # 0
                THEN Lowered("enum", ThriftEnumOf(schema, thriftName, hasParent), f, <<>>)
                ELSE IF schema.format = sInt32 THEN ThriftDefault(name, sI32, f)
                ELSE ThriftDefault(name, sI64, f)
           [] schema.type = "number" ->
                IF Len(schema.enum) # 0
                THEN Lowered("enum", ThriftEnumOf(schema, thriftName, hasParent), f, <<>>)
                ELSE IF schema.format = sFloat THEN ThriftDefault(name, sFloat, f)
                ELSE ThriftDefault(name, sDouble, f)
           [] schema.type = "boolean" -> ThriftDefault(name, sBool, f)
           [] schema.type = "array" ->
                IF schema.items # <<>>
                THEN With(ConvertSchemaToThriftType(schema.items[1], thriftName \o sItem,
                                                    hasParent, f),
                          LAMBDA r : ThriftArrayOf(r, name))
                ELSE ThriftDefault(name, <<>>, f)
           [] schema.type = "object" ->
                With(ThriftProperties(schema.props, 1, <<>>, f),
                     LAMBDA ps :
                     IF ~ps[1] THEN Err(ps[3])
                     ELSE IF schema.addl = <<>>
                     THEN Lowered("struct",
                                  [NewStruct(ThriftStructName(thriftName, hasParent))
                                      EXCEPT !.Fields = ps[2]],
                                  ps[3], <<>>)
                     ELSE With(ConvertSchemaToThriftType(schema.addl[1],
                                   thriftName \o sAdditionalProperties, hasParent, ps[3]),
                               LAMBDA a :
                                   ThriftMapOf(ThriftStructName(thriftName, hasParent),
                                               ps[2], a)))
           [] OTHER -> ThriftDefault(name, <<>>, f))

(***************************************************************************)
(* Operations (openapi3.Operation)                                         *)
(***************************************************************************)
\* utils.GetServiceName
GetServiceName(operation) ==
    IF Len(operation.Tags) > 0 THEN operation.Tags[1] ELSE sDefaultService

\* strings.Title(strings.ToLower(method))
TitleLower(method) == ToUpperCase(ToLowerAll(method))

RECURSIVE SplitSlash(_, _)
\* strings.Split(path, "/"), the segment being read carried in cur
SplitSlash(s, cur) ==
    IF s = <<>> THEN <<cur>>
    ELSE IF Head(s) = "/" THEN <<cur>> \o SplitSlash(Tail(s), <<>>)
    ELSE SplitSlash(Tail(s), Append(cur, Head(s)))

\* length of the run of \w characters of s starting at position i
RECURSIVE WordRun(_, _)
WordRun(s, i) == IF i <= Len(s) /\ IsWordChar(s[i]) THEN 1 + WordRun(s, i + 1) ELSE 0

RECURSIVE ReplacePlaceholders(_, _, _)
\* regexp `\{(\w+)\}` replaced from left to right: "{name}" becomes ":name"
\* when colon holds (ConvertPath) and ToPascaleCase(name) otherwise
ReplacePlaceholders(s, i, colon) ==
    IF i > Len(s) THEN <<>>
    ELSE LET n == WordRun(s, i + 1)
         IN  IF s[i] = "{" /\ n > 0 /\ i + n + 1 <= Len(s) /\ s[i + n + 1] = "}"
             THEN (IF colon THEN <<":">> \o SubSeq(s, i + 1, i + n)
                            ELSE ToPascaleCase(SubSeq(s, i + 1, i + n)))
                  \o ReplacePlaceholders(s, i + n + 2, colon)
             ELSE <<s[i]>> \o ReplacePlaceholders(s, i + 1, colon)

\* utils.ConvertPath: {param} becomes :param
ConvertPath(path) == With(path, LAMBDA s : ReplacePlaceholders(s, 1, TRUE))

\* utils.ConvertPathToPascalCase
ConvertPathToPascalCase(path) ==
    With(path, LAMBDA s :
         With(SplitSlash(ReplacePlaceholders(s, 1, FALSE), <<>>),
              LAMBDA segments :
              Flatten([i \in DOMAIN segments |-> ToPascaleCase(segments[i])])))

\* utils.GetMethodName
GetMethodName(operation, path, method) ==
    IF operation.OperationID # <<>> THEN operation.OperationID
    ELSE IF Len(operation.Tags) > 0 THEN operation.Tags[1]
    ELSE IF path # <<>> THEN ConvertPathToPascalCase(path) \o TitleLower(method)
    ELSE TitleLower(method) \o sMethod

\* utils.GetMessageName
GetMessageName(operation, methodName, suffix) ==
    IF operation.OperationID # <<>> THEN operation.OperationID \o suffix
    ELSE methodName \o suffix

\* the option a field gets when on holds and the option has a name
WithOption(field, on, optionName, value) ==
    IF on /\ optionName # <<>>
    THEN [field EXCEPT !.Options = Append(@, NewOption(optionName, Quoted(value)))]
    ELSE field

\* the body / form binding chosen for a request media type
BodyOptionName(mediaTypeStr) ==
    IF mediaTypeStr = AppJson THEN sApiBody
    ELSE IF mediaTypeStr \in {AppForm, MultipartForm} THEN sApiForm
    ELSE <<>>

\* openapi3.ResponseRef: neither a reference nor content nor headers
IsTrivialResponse(resp) ==
    resp.ref = <<>> /\ (resp.nil \/ (Len(resp.content) = 0 /\ Len(resp.headers) = 0))

\* the responses the count loop of generateResponseMessage counts
ResponseCount(responses) ==
    Cardinality({i \in DOMAIN responses : ~IsTrivialResponse(responses[i][2])})

(***************************************************************************)
(* Thrift: operation lowering                                              *)
(***************************************************************************)
\* every field of a list given the same option
WithOptionAll(fields, on, optionName, byName, value) ==
    [i \in DOMAIN fields |->
        WithOption(fields[i], on, optionName,
                   IF byName THEN fields[i].Name ELSE value)]

\* what one lowered request-content schema adds to the request's fields
ThriftRequestContentFields(fields, r, mediaTypeStr) ==
    LET optionName == BodyOptionName(mediaTypeStr)
        name == IF naming THEN ToSnakeCase(mediaTypeStr) ELSE FormatStr(mediaTypeStr)
    IN  CASE r.kind = "field" ->
               addFieldIfNotExists(fields, WithOption(r.v, apiOption, optionName, r.v.Name))
          [] r.kind = "struct" ->
               addFieldsIfNotExist(fields,
                   WithOptionAll(r.v.Fields, apiOption, optionName, TRUE, <<>>))
          [] OTHER ->
               Append(fields, WithOption(NewField(name \o sUField, r.v.Name),
                                         apiOption, optionName, r.v.Name))

\* what one lowered parameter schema adds to the request's fields
ThriftParameterFields(fields, r, param) ==
    LET optionName == sApiDot \o param.In
    IN  CASE r.kind = "field" ->
               addFieldIfNotExists(fields, WithOption(r.v, apiOption, optionName, param.Name))
          [] r.kind = "struct" ->
               addFieldsIfNotExist(fields,
                   WithOptionAll(r.v.Fields, apiOption, optionName, FALSE, param.Name))
          [] r.kind = "enum" -> fields
          [] OTHER ->
               Append(fields, WithOption(NewField(applyNamingOption(param.Name), r.v.Name),
                                         apiOption, optionName, param.Name))

RECURSIVE ThriftRequestContent(_, _, _, _)
\* the loop over RequestBody.Value.Content, from entry k on
ThriftRequestContent(content, k, fields, f) ==
    IF k > Len(content) THEN <<TRUE, fields, f>>
    ELSE IF content[k][2] = <<>> THEN ThriftRequestContent(content, k + 1, fields, f)
    ELSE With(ConvertSchemaToThriftType(content[k][2][1], FormatStr(content[k][1]), TRUE, f),
              LAMBDA r :
                  IF r.kind = "error" THEN <<FALSE, fields, r.f>>
                  ELSE ThriftRequestContent(content, k + 1,
                           ThriftRequestContentFields(fields, r, content[k][1]), r.f))

RECURSIVE ThriftParameters(_, _, _, _)
\* the loop over operation.Parameters, from entry k on
ThriftParameters(params, k, fields, f) ==
    IF k > Len(params) THEN <<TRUE, fields, f>>
    ELSE IF params[k].Schema = <<>> THEN ThriftParameters(params, k + 1, fields, f)
    ELSE With(ConvertSchemaToThriftType(params[k].Schema[1], params[k].Name, TRUE, f),
              LAMBDA r :
                  IF r.kind = "error" THEN <<FALSE, fields, r.f>>
                  ELSE ThriftParameters(params, k + 1,
                           ThriftParameterFields(fields, r, params[k]), r.f))

\* the request message is registered when it has a field
ThriftRequestOf(messageName, q) ==
    IF ~q[1] THEN [ok |-> FALSE, names |-> << <<>> >>, f |-> q[3]]
    ELSE IF Len(q[2]) > 0
    THEN [ok |-> TRUE, names |-> <<messageName>>,
          f |-> addMessageToThrift(q[3], [NewStruct(messageName) EXCEPT !.Fields = q[2]])]
    ELSE [ok |-> TRUE, names |-> << <<>> >>, f |-> q[3]]

\* the parameters loop follows the content loop unless that failed
ThriftRequestParameters(operation, c) ==
    IF c[1] THEN ThriftParameters(operation.Parameters, 1, c[2], c[3]) ELSE c

\* ThriftConverter.generateRequestMessage: [ok, names, f]
generateRequestMessage(operation, methodName, f) ==
    With(operation.RequestBody,
         LAMBDA body :
         IF body = <<>> /\ Len(operation.Parameters) = 0
         THEN [ok |-> TRUE, names |-> << <<>> >>, f |-> f]
         ELSE IF body # <<>> /\ body[1].ref # <<>>
         THEN [ok |-> TRUE, names |-> <<ExtractMessageNameFromRef(body[1].ref)>>, f |-> f]
         ELSE With(IF body # <<>> /\ ~body[1].nil /\ Len(body[1].content) > 0
                   THEN ThriftRequestContent(body[1].content, 1, <<>>, f)
                   ELSE <<TRUE, <<>>, f>>,
              LAMBDA c :
              With(<<applyNamingOption(GetMessageName(operation, methodName, sRequest)),
                     ThriftRequestParameters(operation, c)>>,
                   LAMBDA q : ThriftRequestOf(q[1], q[2]))))

\* what one lowered response header adds to the response's fields
ThriftHeaderFields(fields, r, headerName) ==
    LET name == IF naming THEN ToSnakeCase(headerName) ELSE headerName
    IN  CASE r.kind = "field" ->
               addFieldIfNotExists(fields, WithOption(r.v, apiOption, sApiHeader, headerName))
          [] r.kind = "struct" ->
               addFieldsIfNotExist(fields,
                   WithOptionAll(r.v.Fields, apiOption, sApiHeader, TRUE, <<>>))
          [] OTHER ->
               Append(fields, WithOption(NewField(name \o sUField, r.v.Name),
                                         apiOption, sApiHeader, headerName))

\* what one lowered response-content schema adds to the response's fields
ThriftResponseContentFields(fields, r, mediaTypeStr) ==
    LET on == apiOption /\ mediaTypeStr = AppJson
        name == IF naming THEN ToSnakeCase(mediaTypeStr) ELSE ToUpperCase(mediaTypeStr)
    IN  CASE r.kind = "field" ->
               addFieldIfNotExists(fields, WithOption(r.v, on, sApiBody, r.v.Name))
          [] r.kind = "struct" ->
               addFieldsIfNotExist(fields, WithOptionAll(r.v.Fields, on, sApiBody, TRUE, <<>>))
          [] OTHER ->
               Append(fields, WithOption(NewField(name, r.v.Name), on, sApiBody, r.v.Name))

RECURSIVE ThriftHeaders(_, _, _, _)
\* the loop over response.Headers, from entry k on
ThriftHeaders(headers, k, fields, f) ==
    IF k > Len(headers) THEN <<TRUE, fields, f>>
    ELSE With(ConvertSchemaToThriftType(headers[k][2], headers[k][1], TRUE, f),
              LAMBDA r :
                  IF r.kind = "error" THEN <<FALSE, fields, r.f>>
                  ELSE ThriftHeaders(headers, k + 1,
                           ThriftHeaderFields(fields, r, headers[k][1]), r.f))

RECURSIVE ThriftResponseContent(_, _, _, _)
\* the loop over response.Content, from entry k on
ThriftResponseContent(content, k, fields, f) ==
    IF k > Len(content) THEN <<TRUE, fields, f>>
    ELSE IF content[k][2] = <<>> THEN ThriftResponseContent(content, k + 1, fields, f)
    ELSE With(ConvertSchemaToThriftType(content[k][2][1], FormatStr(content[k][1]), TRUE, f),
              LAMBDA r :
                  IF r.kind = "error" THEN <<FALSE, fields, r.f>>
                  ELSE ThriftResponseContent(content, k + 1,
                           ThriftResponseContentFields(fields, r, content[k][1]), r.f))

\* the response message is registered when it has a field; otherwise the
\* name returned is empty
ThriftResponseOf(messageName, c) ==
    IF ~c[1] THEN [ok |-> FALSE, name |-> <<>>, f |-> c[3]]
    ELSE IF Len(c[2]) > 0
    THEN [ok |-> TRUE, name |-> messageName,
          f |-> addMessageToThrift(c[3], [NewStruct(messageName) EXCEPT !.Fields = c[2]])]
    ELSE [ok |-> TRUE, name |-> <<>>, f |-> c[3]]

\* the content loop follows the headers loop unless that failed
ThriftResponseBody(responseRef, h) ==
    IF h[1] THEN ThriftResponseContent(responseRef.content, 1, h[2], h[3]) ELSE h

\* ThriftConverter.processSingleResponse: [ok, name, f]
processSingleResponse(statusCode, responseRef, operation, f) ==
    IF responseRef.ref # <<>>
    THEN [ok |-> TRUE, name |-> ExtractMessageNameFromRef(responseRef.ref), f |-> f]
    ELSE With(ThriftHeaders(responseRef.headers, 1, <<>>, f),
              LAMBDA h :
              With(<<applyNamingOption(operation.OperationID \o sResponse
                                       \o ToUpperCase(statusCode)),
                     ThriftResponseBody(responseRef, h)>>,
                   LAMBDA c : ThriftResponseOf(c[1], c[2])))

\* index of the first response that is not trivial, in visiting order
FirstNonTrivial(responses) ==
    CHOOSE i \in DOMAIN responses :
        /\ ~IsTrivialResponse(responses[i][2])
        /\ \A j \in 1..(i - 1) : IsTrivialResponse(responses[j][2])

\* the wrapper loop stops at a response with neither reference nor content
StopsWrapper(resp) == resp.ref = <<>> /\ (resp.nil \/ Len(resp.content) = 0)

\* the name of the wrapper's field for a status code
ThriftWrapperFieldName(statusCode) ==
    IF naming THEN ToSnakeCase(sResponseU \o statusCode) ELSE sResponseU \o statusCode

RECURSIVE ThriftWrapperFields(_, _, _, _, _)
\* the loop building the wrapper's fields, from response k on:
\* <<ok, fields, f, emptyFlag>>
ThriftWrapperFields(responses, k, operation, fields, f) ==
    IF k > Len(responses) \/ StopsWrapper(responses[k][2]) THEN <<TRUE, fields, f, k = 1>>
    ELSE With(processSingleResponse(responses[k][1], responses[k][2], operation, f),
              LAMBDA r :
                  IF ~r.ok THEN <<FALSE, fields, r.f, FALSE>>
                  ELSE ThriftWrapperFields(responses, k + 1, operation,
                           Append(fields,
                                  NewField(ThriftWrapperFieldName(responses[k][1]), r.name)),
                           r.f))

\* the wrapper is registered unless the loop stopped at the first response
ThriftWrapperOf(wrapperMessageName, w) ==
    IF ~w[1] THEN [ok |-> FALSE, name |-> <<>>, f |-> w[3]]
    ELSE IF w[4] THEN [ok |-> TRUE, name |-> sVoid, f |-> w[3]]
    ELSE [ok |-> TRUE, name |-> wrapperMessageName,
          f |-> addMessageToThrift(w[3],
                    [NewStruct(wrapperMessageName) EXCEPT !.Fields = w[2]])]

\* ThriftConverter.generateResponseMessage: [ok, name, f]
generateResponseMessage(operation, methodName, f) ==
    IF operation.Responses = <<>> THEN [ok |-> TRUE, name |-> <<>>, f |-> f]
    ELSE With(<<operation.Responses[1], ResponseCount(operation.Responses[1])>>,
         LAMBDA rc :
         IF rc[2] = 1
         THEN processSingleResponse(<<>>, rc[1][FirstNonTrivial(rc[1])][2], operation, f)
         ELSE IF rc[2] = 0 THEN [ok |-> TRUE, name |-> sVoid, f |-> f]
         ELSE With(<<applyNamingOption(GetMessageName(operation, methodName, sResponse)),
                     ThriftWrapperFields(rc[1], 1, operation, <<>>, f)>>,
                   LAMBDA w : ThriftWrapperOf(w[1], w[2])))

\* ThriftMethod / ProtoMethod
NewMethod(name, input, output, options) ==
    [Name |-> name, Input |-> input, Output |-> output, Options |-> options]

\* what the lowering of one operation reports: the service and method it
\* chose, the request and response types, and whether a method was appended
OpResult(ok, serviceName, methodName, input, output, added) ==
    [ok |-> ok, service |-> serviceName, method |-> methodName,
     input |-> input, output |-> output, added |-> added]

NoResult == [ok |-> TRUE, service |-> <<>>, method |-> <<>>,
             input |-> <<>>, output |-> <<>>, added |-> FALSE]

\* the option naming the route of a method
RouteOptions(method, path) ==
    IF apiOption /\ method \in MethodVerbs
    THEN <<NewOption(MethodToOption(method), Quoted(ConvertPath(path)))>>
    ELSE <<>>

\* a service list to which the method is appended whatever it holds
AddMethodAlways(services, i, method) ==
    [services EXCEPT ![i].Methods = Append(@, method)]

\* the method is appended to the first service of its name unless that
\* service has a method of that name
AddMethod(services, i, method) ==
    IF methodExistsInService(services[i], method.Name) THEN services
    ELSE [services EXCEPT ![i].Methods = Append(@, method)]

\* the end of the loop body: findOrCreateService and the method, given the
\* request and response types
ThriftMethodOf(operation, serviceName, methodName, req, res) ==
    IF ~res.ok
    THEN <<res.f, OpResult(FALSE, serviceName, methodName, <<>>, <<>>, FALSE)>>
    ELSE With(findOrCreateService(res.f.Services, serviceName),
         LAMBDA services :
         << [res.f EXCEPT !.Services =
                AddMethod(services, FirstNamed(services, serviceName),
                          NewMethod(methodName, req.names, res.name,
                                    RouteOptions(operation.method, operation.path)))],
            OpResult(TRUE, serviceName, methodName, req.names, res.name,
                     ~methodExistsInService(services[FirstNamed(services, serviceName)],
                                            methodName)) >>)

\* generateResponseMessage follows generateRequestMessage unless that failed
ThriftResponseAfter(operation, methodName, req) ==
    IF req.ok THEN generateResponseMessage(operation, methodName, req.f)
    ELSE [ok |-> FALSE, name |-> <<>>, f |-> req.f]

\* a loop body that looks for the method before it lowers the operation, and
\* lowers nothing for a method its service already holds
ThriftOperationCheckingFirst(f, operation) ==
    With(<<applyNamingOption(GetServiceName(operation)),
           applyNamingOption(GetMethodName(operation, operation.path, operation.method))>>,
         LAMBDA n :
         IF /\ HasName(f.Services, n[1])
            /\ methodExistsInService(f.Services[FirstNamed(f.Services, n[1])], n[2])
         THEN <<f, OpResult(TRUE, n[1], n[2], <<>>, <<>>, FALSE)>>
         ELSE With(generateRequestMessage(operation, n[2], f),
                   LAMBDA req :
                   With(ThriftResponseAfter(operation, n[2], req),
                        LAMBDA res : ThriftMethodOf(operation, n[1], n[2], req, res))))

\* the body of the loop of ThriftConverter.ConvertPathsToThriftServices for
\* one operation: <<f, result>>
ThriftOperation(f, operation) ==
    With(<<applyNamingOption(GetServiceName(operation)),
           applyNamingOption(GetMethodName(operation, operation.path, operation.method))>>,
         LAMBDA n :
         With(generateRequestMessage(operation, n[2], f),
              LAMBDA req :
              With(ThriftResponseAfter(operation, n[2], req),
                   LAMBDA res : ThriftMethodOf(operation, n[1], n[2], req, res))))

\* the body of the loop of convertTagsToThriftServices for one tag
ThriftTag(f, tagName) ==
    [f EXCEPT !.Services = Append(@, NewService(ToPascaleCase(tagName)))]

RECURSIVE convertTagsToThriftServices(_, _)
\* ThriftConverter.convertTagsToThriftServices
convertTagsToThriftServices(f, tags) ==
    IF tags = <<>> THEN f
    ELSE convertTagsToThriftServices(ThriftTag(f, Head(tags)), Tail(tags))

\* what convertComponentsToThriftMessages registers for a lowered component
ThriftComponentOf(name, r) ==
    CASE r.kind = "error" -> <<FALSE, r.f>>
      [] r.kind = "field" ->
           <<TRUE, addMessageToThrift(r.f, [NewStruct(name) EXCEPT !.Fields = <<r.v>>])>>
      [] OTHER -> <<TRUE, ThriftRegister(r)>>

\* the body of the loop of convertComponentsToThriftMessages for one
\* component schema: <<ok, f>>
ThriftComponent(f, componentName, schemaRef) ==
    With(applyNamingOption(componentName),
         LAMBDA name :
         With(ConvertSchemaToThriftType(schemaRef, name, FALSE, f),
              LAMBDA r : ThriftComponentOf(name, r)))

(***************************************************************************)
(* Proto: schema lowering                                                  *)
(***************************************************************************)
\* utils.ToUpperFirstLetter
ToUpperFirstLetter(s) == ToUpperCase(s)

\* utils.FormatNaming: "/" and "-" become "_"
FormatNaming(name) ==
    With(name, LAMBDA s : [i \in DOMAIN s |-> IF s[i] \in {"/", "-"} THEN "_" ELSE s[i]])

\* utils.ToSnakeCase as the proto converter links it: ToSnake(FormatNaming(name))
protoToSnakeCase(name) == ToSnake(FormatNaming(name))

\* ProtoConverter.applyNamingOption
protoApplyNamingOption(name) ==
    IF naming THEN ToPascaleCase(name) ELSE ToUpperFirstLetter(name)

\* the name of a declaration lowered below a parent (<<>> when there is none)
ProtoNestedName(parent, protoName) ==
    IF parent = <<>> THEN protoName
    ELSE protoApplyNamingOption(parent[1].Name \o ToUpperFirstLetter(protoName))

\* addNestedMessageToParent / addNestedEnumToParent
addNestedToParent(parent, r) ==
    IF parent = <<>> THEN parent
    ELSE CASE r.kind = "struct" -> <<[parent[1] EXCEPT !.Messages = Append(@, r.v)]>>
           [] r.kind = "enum" -> <<[parent[1] EXCEPT !.Enums = Append(@, r.v)]>>
           [] OTHER -> parent

RECURSIVE ConvertSchemaToProtoType(_, _, _, _)
RECURSIVE ProtoProperties(_, _, _, _)

\* the object's message after a lowered property: a Field is appended as it
\* is, a nested message or enum is stored in the message and referenced by a
\* field named after the property
ProtoPropertyOf(r, propName) ==
    IF r.kind = "field" THEN [r.p[1] EXCEPT !.Fields = Append(@, r.v)]
    ELSE [addNestedToParent(r.p, r)[1] EXCEPT
             !.Fields = Append(@, NewField(protoApplyNamingOption(propName), r.v.Name))]

\* the property loop of the object case: <<ok, message, f>>
ProtoProperties(props, k, message, f) ==
    IF k > Len(props) THEN <<TRUE, message, f>>
    ELSE With(ConvertSchemaToProtoType(props[k][2], props[k][1], <<message>>, f),
              LAMBDA r :
                  IF r.kind = "error" THEN <<FALSE, message, r.f>>
                  ELSE ProtoProperties(props, k + 1, ProtoPropertyOf(r, props[k][1]), r.f))

\* the default ProtoField built when no case set a result
ProtoDefault(name, protoType, f, parent) ==
    Lowered("field", NewField(name, protoType), f, parent)

\* the array case, given the lowered items
ProtoArrayOf(r, name) ==
    IF r.kind = "error" THEN r
    ELSE Lowered("field",
                 [NewField(name, IF r.kind = "field" THEN r.v.Type ELSE r.v.Name)
                     EXCEPT !.Repeated = TRUE],
                 r.f, addNestedToParent(r.p, r))

\* the object case, given its message and the lowered additionalProperties
ProtoMapOf(message, a) ==
    IF a.kind = "error" THEN a
    ELSE Lowered("struct",
                 [message EXCEPT !.Fields =
                     Append(@, NewField(sadditionalProperties,
                                        sMapOpen
                                        \o (IF a.kind \in {"struct", "enum"} THEN a.v.Name
                                            ELSE sString)
                                        \o sMapClose))],
                 a.f, a.p)

\* ProtoConverter.ConvertSchemaToProtoType; parent is <<>> or <<message>>
ConvertSchemaToProtoType(schemaRef, protoName, parent, f) ==
    IF schemaRef.ref # <<>>
    THEN With(ExtractMessageNameFromRef(schemaRef.ref),
              LAMBDA refName :
                  ProtoDefault(protoApplyNamingOption(refName), refName, f, parent))
    ELSE IF schemaRef.nil \/ schemaRef.type = ""
    THEN Lowered("error", SchemaTypeRequired, f, parent)
    ELSE With(<<schemaRef, protoApplyNamingOption(protoName)>>,
         LAMBDA sn :
         LET schema == sn[1]
             name == sn[2]
         IN
         CASE schema.type = "string" ->
                IF schema.format \in {sDate, sDateTime}
                THEN ProtoDefault(name, TimestampType,
                                  AddProtoImport(f, TimestampProtoFile), parent)
                ELSE IF Len(schema.enum) # 0
                THEN Lowered("enum", NewEnum(ProtoNestedName(parent, protoName), schema.enum),
                             f, parent)
                ELSE ProtoDefault(name, sString, f, parent)
           [] schema.type = "integer" ->
                IF Len(schema.enum) # 0
                THEN Lowered("enum", NewEnum(ProtoNestedName(parent, protoName), schema.enum),
                             f, parent)
                ELSE IF schema.format = sInt32 THEN ProtoDefault(name, pInt32, f, parent)
                ELSE ProtoDefault(name, pInt64, f, parent)
           [] schema.type = "number" ->
                IF Len(schema.enum) # 0
                THEN Lowered("enum", NewEnum(ProtoNestedName(parent, protoName), schema.enum),
                             f, parent)
                ELSE IF schema.format = sFloat THEN ProtoDefault(name, sFloat, f, parent)
                ELSE ProtoDefault(name, sDouble, f, parent)
           [] schema.type = "boolean" -> ProtoDefault(name, sBool, f, parent)
           [] schema.type = "array" ->
                IF schema.items = <<>> THEN ProtoDefault(name, <<>>, f, parent)
                ELSE With(ConvertSchemaToProtoType(schema.items[1], protoName \o sItem,
                                                   parent, f),
                          LAMBDA r : ProtoArrayOf(r, name))
           [] schema.type = "object" ->
                With(ProtoProperties(schema.props, 1,
                                     NewMessage(ProtoNestedName(parent, protoName)), f),
                     LAMBDA b :
                         IF ~b[1] THEN Lowered("error", SchemaTypeRequired, b[3], parent)
                         ELSE IF schema.addl = <<>> THEN Lowered("struct", b[2], b[3], parent)
                         ELSE With(ConvertSchemaToProtoType(schema.addl[1],
                                       protoName \o sAdditionalProperties, parent, b[3]),
                                   LAMBDA a : ProtoMapOf(b[2], a)))
           [] OTHER -> ProtoDefault(name, <<>>, f, parent))

(***************************************************************************)
(* Proto: operation lowering                                               *)
(***************************************************************************)
\* what one lowered schema adds to the message being built (the parent the
\* lowering returned): a Field is added unless its name is taken; a nested
\* message or enum is stored in the message and referenced by a field called
\* name.  The option is attached when on holds, its value being fieldValue,
\* or the name of what was lowered when fieldValue is empty.
ProtoAddTo(r, name, on, optionName, fieldValue) ==
    CASE r.kind = "field" ->
           [r.p[1] EXCEPT !.Fields =
               addFieldIfNotExists(@, WithOption(r.v, on, optionName,
                   IF fieldValue = <<>> THEN r.v.Name ELSE fieldValue))]
      [] r.kind = "struct" ->
           [r.p[1] EXCEPT
               !.Messages = addMessageIfNotExists(@, r.v),
               !.Fields = Append(@, WithOption(NewField(name, r.v.Name), on, optionName,
                                     IF fieldValue = <<>> THEN r.v.Name ELSE fieldValue))]
      [] OTHER ->
           [r.p[1] EXCEPT
               !.Enums = Append(@, r.v),
               !.Fields = Append(@, WithOption(NewField(name, r.v.Name), on, optionName,
                                     IF fieldValue = <<>> THEN r.v.Name ELSE fieldValue))]

\* api.proto is imported whenever an api option is attached
ProtoImportApi(f, on, optionName) ==
    IF on /\ optionName # <<>> THEN AddProtoImport(f, apiProtoFile) ELSE f

RECURSIVE ProtoRequestContent(_, _, _, _)
\* the loop over RequestBody.Value.Content: <<ok, message, f>>
ProtoRequestContent(content, k, message, f) ==
    IF k > Len(content) THEN <<TRUE, message, f>>
    ELSE IF content[k][2] = <<>> THEN ProtoRequestContent(content, k + 1, message, f)
    ELSE With(ConvertSchemaToProtoType(content[k][2][1], FormatNaming(content[k][1]),
                                       <<message>>, f),
              LAMBDA r :
                  IF r.kind = "error" THEN <<FALSE, message, r.f>>
                  ELSE ProtoRequestContent(content, k + 1,
                           ProtoAddTo(r, IF naming THEN ToPascaleCase(content[k][1])
                                         ELSE FormatNaming(content[k][1]),
                                      apiOption, BodyOptionName(content[k][1]), <<>>),
                           ProtoImportApi(r.f, apiOption, BodyOptionName(content[k][1]))))

RECURSIVE ProtoParameters(_, _, _, _)
\* the loop over operation.Parameters: <<ok, message, f>>
ProtoParameters(params, k, message, f) ==
    IF k > Len(params) THEN <<TRUE, message, f>>
    ELSE IF params[k].Schema = <<>> THEN ProtoParameters(params, k + 1, message, f)
    ELSE With(ConvertSchemaToProtoType(params[k].Schema[1], params[k].Name, <<message>>, f),
              LAMBDA r :
                  IF r.kind = "error" THEN <<FALSE, message, r.f>>
                  ELSE ProtoParameters(params, k + 1,
                           ProtoAddTo(r, protoApplyNamingOption(params[k].Name), apiOption,
                                      sApiDot \o params[k].In, params[k].Name),
                           ProtoImportApi(r.f, apiOption, sApiDot \o params[k].In)))

\* a message with nothing in it is not registered
ProtoIsEmpty(message) ==
    Len(message.Fields) = 0 /\ Len(message.Messages) = 0 /\ Len(message.Enums) = 0

\* the request message is registered unless it is empty
ProtoRequestOf(q) ==
    IF ~q[1] THEN [ok |-> FALSE, names |-> << <<>> >>, f |-> q[3]]
    ELSE IF ~ProtoIsEmpty(q[2])
    THEN [ok |-> TRUE, names |-> <<q[2].Name>>, f |-> addMessageToProto(q[3], q[2])]
    ELSE [ok |-> TRUE, names |-> << <<>> >>, f |-> q[3]]

\* the parameters loop follows the content loop unless that failed
ProtoRequestParameters(operation, c) ==
    IF c[1] THEN ProtoParameters(operation.Parameters, 1, c[2], c[3]) ELSE c

\* ProtoConverter.generateRequestMessage: [ok, names, f]
protoGenerateRequestMessage(operation, f) ==
    With(<<operation.RequestBody,
           NewMessage(protoApplyNamingOption(operation.OperationID \o sRequest))>>,
         LAMBDA bm :
         IF bm[1] = <<>> /\ Len(operation.Parameters) = 0
         THEN [ok |-> TRUE, names |-> <<EmptyMessage>>, f |-> AddProtoImport(f, EmptyProtoFile)]
         ELSE IF bm[1] # <<>> /\ bm[1][1].ref # <<>>
         THEN [ok |-> TRUE, names |-> <<ExtractMessageNameFromRef(bm[1][1].ref)>>, f |-> f]
         ELSE With(IF bm[1] # <<>> /\ ~bm[1][1].nil /\ Len(bm[1][1].content) > 0
                   THEN ProtoRequestContent(bm[1][1].content, 1, bm[2], f)
                   ELSE <<TRUE, bm[2], f>>,
              LAMBDA c :
              With(ProtoRequestParameters(operation, c), LAMBDA q : ProtoRequestOf(q))))

RECURSIVE ProtoHeaders(_, _, _, _)
\* the loop over response.Headers: <<ok, message, f>>
ProtoHeaders(headers, k, message, f) ==
    IF k > Len(headers) THEN <<TRUE, message, f>>
    ELSE With(ConvertSchemaToProtoType(headers[k][2], headers[k][1], <<message>>, f),
              LAMBDA r :
                  IF r.kind = "error" THEN <<FALSE, message, r.f>>
                  ELSE ProtoHeaders(headers, k + 1,
                           ProtoAddTo(r, IF naming THEN protoToSnakeCase(headers[k][1])
                                         ELSE ToUpperFirstLetter(headers[k][1]),
                                      apiOption, sApiHeader, headers[k][1]),
                           ProtoImportApi(r.f, apiOption, sApiHeader)))

RECURSIVE ProtoResponseContent(_, _, _, _)
\* the loop over response.Content: <<ok, message, f>>
ProtoResponseContent(content, k, message, f) ==
    IF k > Len(content) THEN <<TRUE, message, f>>
    ELSE IF content[k][2] = <<>> THEN ProtoResponseContent(content, k + 1, message, f)
    ELSE With(ConvertSchemaToProtoType(content[k][2][1], FormatNaming(content[k][1]),
                                       <<message>>, f),
              LAMBDA r :
                  IF r.kind = "error" THEN <<FALSE, message, r.f>>
                  ELSE ProtoResponseContent(content, k + 1,
                           ProtoAddTo(r, IF naming THEN protoToSnakeCase(content[k][1])
                                         ELSE ToUpperFirstLetter(content[k][1]),
                                      apiOption /\ content[k][1] = AppJson, sApiBody, <<>>),
                           ProtoImportApi(r.f, apiOption /\ content[k][1] = AppJson,
                                          sApiBody)))

\* the response message is registered unless it is empty; otherwise the name
\* returned is empty
ProtoResponseOf(c) ==
    IF ~c[1] THEN [ok |-> FALSE, name |-> <<>>, f |-> c[3]]
    ELSE IF ~ProtoIsEmpty(c[2])
    THEN [ok |-> TRUE, name |-> c[2].Name, f |-> addMessageToProto(c[3], c[2])]
    ELSE [ok |-> TRUE, name |-> <<>>, f |-> c[3]]

\* the content loop follows the headers loop unless that failed
ProtoResponseBody(responseRef, h) ==
    IF h[1] THEN ProtoResponseContent(responseRef.content, 1, h[2], h[3]) ELSE h

\* ProtoConverter.processSingleResponse: [ok, name, f]
protoProcessSingleResponse(statusCode, responseRef, operation, f) ==
    IF responseRef.ref # <<>>
    THEN [ok |-> TRUE, name |-> ExtractMessageNameFromRef(responseRef.ref), f |-> f]
    ELSE With(ProtoHeaders(responseRef.headers, 1,
                  NewMessage(protoApplyNamingOption(
                      operation.OperationID \o sResponse \o ToUpperFirstLetter(statusCode))), f),
              LAMBDA h :
              With(ProtoResponseBody(responseRef, h), LAMBDA c : ProtoResponseOf(c)))

RECURSIVE ProtoWrapperFields(_, _, _, _, _)
\* the loop building the wrapper's fields: <<ok, fields, f, emptyFlag>>
ProtoWrapperFields(responses, k, operation, fields, f) ==
    IF k > Len(responses) \/ StopsWrapper(responses[k][2]) THEN <<TRUE, fields, f, k = 1>>
    ELSE With(protoProcessSingleResponse(responses[k][1], responses[k][2], operation, f),
              LAMBDA r :
                  IF ~r.ok THEN <<FALSE, fields, r.f, FALSE>>
                  ELSE ProtoWrapperFields(responses, k + 1, operation,
                           Append(fields,
                                  NewField(protoApplyNamingOption(sResponseU \o responses[k][1]),
                                           r.name)),
                           r.f))

\* return EmptyMessage after AddProtoImport(EmptyProtoFile)
ProtoEmpty(f) ==
    [ok |-> TRUE, name |-> EmptyMessage, f |-> AddProtoImport(f, EmptyProtoFile)]

\* the wrapper is registered unless the loop stopped at the first response
ProtoWrapperOf(wrapperMessageName, w) ==
    IF ~w[1] THEN [ok |-> FALSE, name |-> <<>>, f |-> w[3]]
    ELSE IF w[4] THEN ProtoEmpty(w[3])
    ELSE [ok |-> TRUE, name |-> wrapperMessageName,
          f |-> addMessageToProto(w[3],
                    [NewMessage(wrapperMessageName) EXCEPT !.Fields = w[2]])]

\* ProtoConverter.generateResponseMessage: [ok, name, f].  With exactly one
\* response counted, the loop returns on the first response it visits.
protoGenerateResponseMessage(operation, f) ==
    IF operation.Responses = <<>> THEN [ok |-> TRUE, name |-> <<>>, f |-> f]
    ELSE With(<<operation.Responses[1], ResponseCount(operation.Responses[1])>>,
         LAMBDA rc :
         IF rc[2] = 1
         THEN IF IsTrivialResponse(rc[1][1][2]) THEN ProtoEmpty(f)
              ELSE protoProcessSingleResponse(rc[1][1][1], rc[1][1][2], operation, f)
         ELSE With(<<protoApplyNamingOption(operation.OperationID \o sResponse),
                     ProtoWrapperFields(rc[1], 1, operation, <<>>, f)>>,
                   LAMBDA w : ProtoWrapperOf(w[1], w[2])))

\* utils.GenerateMethodName (Summary and Description are not modelled: the
\* documents here leave them empty)
GenerateMethodName(operation, method) ==
    IF operation.OperationID # <<>> THEN operation.OperationID
    ELSE IF Len(operation.Tags) > 0 THEN operation.Tags[1]
    ELSE TitleLower(method) \o sMethod

\* the end of the loop body: findOrCreateService and the method, given the
\* request and response types; api.proto is imported when the route option
\* is attached
ProtoMethodOf(operation, serviceName, methodName, req, res) ==
    IF ~res.ok
    THEN <<res.f, OpResult(FALSE, serviceName, methodName, <<>>, <<>>, FALSE)>>
    ELSE With(<<findOrCreateService(res.f.Services, serviceName),
                RouteOptions(operation.method, operation.path)>>,
         LAMBDA so :
         With(~methodExistsInService(so[1][FirstNamed(so[1], serviceName)], methodName),
              LAMBDA added :
              << [ProtoImportApi(res.f, added /\ so[2] # <<>>, sApiDot) EXCEPT !.Services =
                     AddMethod(so[1], FirstNamed(so[1], serviceName),
                               NewMethod(methodName, req.names, res.name, so[2]))],
                 OpResult(TRUE, serviceName, methodName, req.names, res.name, added) >>))

\* generateResponseMessage follows generateRequestMessage unless that failed
ProtoResponseAfter(operation, req) ==
    IF req.ok THEN protoGenerateResponseMessage(operation, req.f)
    ELSE [ok |-> FALSE, name |-> <<>>, f |-> req.f]

\* the body of the loop of ProtoConverter.ConvertPathsToProtoServices for one
\* operation, the services found being those this run has created: <<f, result>>
ProtoOperation(f, operation) ==
    With(protoGenerateRequestMessage(operation, f),
         LAMBDA req :
         With(<<GetServiceName(operation),
                protoApplyNamingOption(GenerateMethodName(operation, operation.method)),
                ProtoResponseAfter(operation, req)>>,
              LAMBDA n : ProtoMethodOf(operation, n[1], n[2], req, n[3])))

\* what convertComponentsToProtoMessages registers for a lowered component
ProtoComponentOf(name, r) ==
    CASE r.kind = "error" -> <<FALSE, r.f>>
      [] r.kind = "field" ->
           <<TRUE, addMessageToProto(r.f, [NewMessage(name) EXCEPT !.Fields = <<r.v>>])>>
      [] r.kind = "struct" -> <<TRUE, addMessageToProto(r.f, r.v)>>
      [] OTHER -> <<TRUE, addEnumToThrift(r.f, r.v)>>

\* the body of the loop of convertComponentsToProtoMessages for one component
\* schema: <<ok, f>>
ProtoComponent(f, name, schemaRef) ==
    With(ConvertSchemaToProtoType(schemaRef, name, <<>>, f),
         LAMBDA r : ProtoComponentOf(name, r))

(***************************************************************************)
(* Serializers.  The text is held as its sequence of lines, each line as   *)
(* the values its format string prints (blank lines are not recorded).     *)
(***************************************************************************)
\* the bytes that occur in names, in ascending order
ByteOrder ==
    <<" ", "\"", "#", ",", "-", ".", "/">> \o
    <<"0","1","2","3","4","5","6","7","8","9">> \o <<":", "<", ">">> \o
    UpperAlpha \o <<"_">> \o LowerAlpha \o <<"{", "}">>

ByteOf(c) == CHOOSE i \in DOMAIN ByteOrder : ByteOrder[i] = c

RECURSIVE StrLess(_, _)
\* Go's a < b on strings
StrLess(a, b) ==
    IF b = <<>> THEN FALSE
    ELSE IF a = <<>> THEN TRUE
    ELSE IF Head(a) = Head(b) THEN StrLess(Tail(a), Tail(b))
    ELSE ByteOf(Head(a)) < ByteOf(Head(b))

RECURSIVE InsertByName(_, _)
InsertByName(sorted, x) ==
    IF sorted = <<>> THEN <<x>>
    ELSE IF StrLess(x.Name, Head(sorted).Name) THEN <<x>> \o sorted
    ELSE <<Head(sorted)>> \o InsertByName(Tail(sorted), x)

RECURSIVE SortByName(_)
\* sort.Slice(xs, func(i, j) { return xs[i].Name < xs[j].Name }): for the
\* lengths met here sort.Slice is an insertion sort, which keeps equal names
\* in their stored order
SortByName(xs) ==
    IF xs = <<>> THEN <<>>
    ELSE InsertByName(SortByName(SubSeq(xs, 1, Len(xs) - 1)), xs[Len(xs)])

Line(kind, index, type, name, options, args) ==
    [kind |-> kind, index |-> index, type |-> type, name |-> name,
     options |-> options, args |-> args]

sListOpen == <<"l","i","s","t","<">>
sRepeated == <<"r","e","p","e","a","t","e","d"," ">>

\* strconv.Atoi(valueStr) succeeds
IsNumber(v) == v # <<>> /\ \A i \in DOMAIN v : IsNum(v[i])

\* ThriftGenerate.encodeEnum
encodeEnum(enum) ==
    <<Line("enum", 0, <<>>, enum.Name, <<>>, <<>>)>>
    \o [i \in DOMAIN enum.Values |->
          Line("value", enum.Values[i].Index, <<>>,
               IF IsNumber(enum.Values[i].Value) THEN enum.Name \o enum.Values[i].Value
               ELSE enum.Values[i].Value, <<>>, <<>>)]
    \o <<Line("}", 0, <<>>, <<>>, <<>>, <<>>)>>

\* ThriftGenerate.encodeField
encodeField(field, index) ==
    Line("field", index,
         IF field.Repeated THEN sListOpen \o field.Type \o sMapClose ELSE field.Type,
         field.Name, field.Options, <<>>)

\* ThriftGenerate.encodeMessage / encodeUnion: fields numbered as stored
encodeMessage(word, message) ==
    <<Line(word, 0, <<>>, message.Name, <<>>, <<>>)>>
    \o [i \in DOMAIN message.Fields |-> encodeField(message.Fields[i], i)]
    \o <<Line("}", 0, <<>>, <<>>, <<>>, <<>>)>>

\* ThriftGenerate.encodeMethod
encodeMethod(method) ==
    Line("method", 0, method.Output, method.Name, method.Options,
         [i \in DOMAIN method.Input |-> <<i, method.Input[i]>>])

\* ThriftGenerate.encodeService
encodeService(service) ==
    <<Line("service", 0, <<>>, service.Name, <<>>, <<>>)>>
    \o [i \in DOMAIN service.Methods |-> encodeMethod(service.Methods[i])]
    \o <<Line("}", 0, <<>>, <<>>, <<>>, <<>>)>>

\* ThriftGenerate.Generate: includes, enums, structs, unions, services, each
\* list in its stored order
ThriftGenerate(f) ==
    [i \in DOMAIN f.Imports |-> Line("include", 0, <<>>, f.Imports[i], <<>>, <<>>)]
    \o Flatten([i \in DOMAIN f.Enums |-> encodeEnum(f.Enums[i])])
    \o Flatten([i \in DOMAIN f.Structs |-> encodeMessage("struct", f.Structs[i])])
    \o Flatten([i \in DOMAIN f.Unions |-> encodeMessage("union", f.Unions[i])])
    \o Flatten([i \in DOMAIN f.Services |-> encodeService(f.Services[i])])

\* strings.ToUpper
ToUpperAll(s) == [i \in DOMAIN s |-> UpperOf(s[i])]

\* the option sort of each element of a list already sorted by name
SortOptions(xs) == [i \in DOMAIN xs |-> [xs[i] EXCEPT !.Options = SortByName(@)]]

RECURSIVE protoSorted(_)
\* a message as ProtoGenerate.encodeMessage leaves it: the fields sorted by
\* name, each field's options sorted by name, nested messages likewise
protoSorted(message) ==
    [message EXCEPT
        !.Fields = SortOptions(SortByName(@)),
        !.Messages = [i \in DOMAIN message.Messages |->
                         protoSorted(message.Messages[i])]]

\* ProtoGenerate.encodeEnum
protoEncodeEnum(enum, indentLevel) ==
    <<Line("enum", indentLevel, <<>>, enum.Name, <<>>, <<>>)>>
    \o [i \in DOMAIN enum.Values |->
          Line("value", enum.Values[i].Index, <<>>,
               ToUpperAll(FormatStr(
                   IF IsNumber(enum.Values[i].Value) THEN enum.Name \o enum.Values[i].Value
                   ELSE enum.Values[i].Value)), <<>>, <<>>)]
    \o <<Line("}", indentLevel, <<>>, <<>>, <<>>, <<>>)>>

RECURSIVE protoEncodeMessage(_, _)
\* ProtoGenerate.encodeMessage, given the message with its fields sorted:
\* the fields numbered from 1, then nested enums, then nested messages
protoEncodeMessage(message, indentLevel) ==
    <<Line("message", indentLevel, <<>>, message.Name, <<>>, <<>>)>>
    \o [i \in DOMAIN message.Fields |->
          Line("field", i,
               IF message.Fields[i].Repeated THEN sRepeated \o message.Fields[i].Type
               ELSE message.Fields[i].Type,
               FormatStr(message.Fields[i].Name), message.Fields[i].Options, <<>>)]
    \o Flatten([i \in DOMAIN message.Enums |->
                   protoEncodeEnum(message.Enums[i], indentLevel + 1)])
    \o Flatten([i \in DOMAIN message.Messages |->
                   protoEncodeMessage(message.Messages[i], indentLevel + 1)])
    \o <<Line("}", indentLevel, <<>>, <<>>, <<>>, <<>>)>>

\* the services as ProtoGenerate.Generate leaves them: sorted by name, each
\* service's methods sorted by name, each method's options sorted by name
protoSortedMethods(sorted) ==
    [i \in DOMAIN sorted |-> [sorted[i] EXCEPT !.Methods = SortOptions(SortByName(@))]]

protoSortedServices(services) == protoSortedMethods(SortByName(services))

\* the IR root as ProtoGenerate.Generate leaves it (the sorts are in place)
protoSortedMessages(messages) == [i \in DOMAIN messages |-> protoSorted(messages[i])]

protoSortedFile(f) ==
    [f EXCEPT !.Enums = SortByName(@),
              !.Structs = protoSortedMessages(SortByName(@)),
              !.Services = protoSortedServices(@)]

\* the rpc line of ProtoGenerate.Generate
protoEncodeMethod(method) ==
    Line("rpc", 0, method.Output, method.Name, method.Options,
         [i \in DOMAIN method.Input |-> <<i, method.Input[i]>>])

protoEncodeService(service) ==
    <<Line("service", 0, <<>>, service.Name, <<>>, <<>>)>>
    \o [i \in DOMAIN service.Methods |-> protoEncodeMethod(service.Methods[i])]
    \o <<Line("}", 0, <<>>, <<>>, <<>>, <<>>)>>

\* ProtoGenerate.Generate: imports as stored, then enums, messages and
\* services, each sorted by name
protoEncodeFile(g) ==
    [i \in DOMAIN g.Imports |-> Line("import", 0, <<>>, g.Imports[i], <<>>, <<>>)]
    \o Flatten([i \in DOMAIN g.Enums |-> protoEncodeEnum(g.Enums[i], 0)])
    \o Flatten([i \in DOMAIN g.Structs |-> protoEncodeMessage(g.Structs[i], 0)])
    \o Flatten([i \in DOMAIN g.Services |-> protoEncodeService(g.Services[i])])

ProtoGenerate(f) == protoEncodeFile(protoSortedFile(f))

(***************************************************************************)
(* Input documents: the component schemas and operations runs draw from    *)
(***************************************************************************)
nPet == <<"P","e","t">>
nStatus == <<"S","t","a","t","u","s">>
nOwner == <<"O","w","n","e","r">>
nBad == <<"B","a","d">>
nName == <<"n","a","m","e">>
nId == <<"i","d">>
nMsg == <<"m","s","g">>
nFirst == <<"f","i","r","s","t">>
nSecond == <<"s","e","c","o","n","d">>
nOk == <<"o","k">>
nErr == <<"e","r","r">>
nPetTag == <<"p","e","t">>
nListPets == <<"l","i","s","t","P","e","t","s">>
nGetPet == <<"g","e","t","P","e","t">>
nGetUPet == <<"g","e","t","_","p","e","t">>
nCreatePet == <<"c","r","e","a","t","e","P","e","t">>
pathPets == <<"/","p","e","t","s">>
pathPetsId == <<"/","p","e","t","s","/","{","i","d","}">>
pathPetId == <<"/","p","e","t","/","{","i","d","}">>
pathPing == <<"/","p","i","n","g">>
mGET == <<"G","E","T">>
mPOST == <<"P","O","S","T">>
mDELETE == <<"D","E","L","E","T","E">>
s200 == <<"2","0","0">>
s204 == <<"2","0","4">>
s400 == <<"4","0","0">>
s404 == <<"4","0","4">>
inPath == <<"p","a","t","h">>

StringSchema == SchemaOf("string")

Int64Schema == [SchemaOf("integer") EXCEPT !.format = sInt64]

ObjectSchema(props) == [SchemaOf("object") EXCEPT !.props = props]

\* components.schemas: Pet is an object whose properties are visited name
\* first; Status a string enum; Owner an object with two properties that
\* refer to Pet; Bad a schema reference with neither $ref nor value
ComponentMenu ==
    << [name |-> nPet,
        schema |-> ObjectSchema(<< <<nName, StringSchema>>, <<nId, Int64Schema>> >>)],
       [name |-> nStatus, schema |-> [StringSchema EXCEPT !.enum = <<nOk, nErr>>]],
       [name |-> nOwner,
        schema |-> ObjectSchema(<< <<nFirst, RefTo(nPet)>>, <<nSecond, RefTo(nPet)>> >>)],
       [name |-> nBad, schema |-> [SchemaOf("") EXCEPT !.nil = TRUE]] >>

\* openapi3.ResponseRef
Response(content) == [ref |-> <<>>, nil |-> FALSE, headers |-> <<>>, content |-> content]

JsonOf(schema) == << <<AppJson, <<schema>> >> >>

\* openapi3.Operation with the path and method it is declared under.
\* RequestBody is <<>> (nil) or <<body>>; Responses is <<>> (nil) or
\* <<responses>>, the responses as <<status code, response>> pairs.
Operation(path, method, id, tags, body, params, responses) ==
    [path |-> path, method |-> method, OperationID |-> id, Tags |-> tags,
     RequestBody |-> body, Parameters |-> params, Responses |-> responses]

IdParam == [Name |-> nId, In |-> inPath, Schema |-> <<Int64Schema>>]

OpMenu ==
    << Operation(pathPets, mGET, nListPets, <<nPetTag>>, <<>>, <<>>,
                 << << <<s200, Response(JsonOf(RefTo(nPet)))>> >> >>),
       Operation(pathPetsId, mGET, nGetPet, <<nPetTag>>, <<>>, <<IdParam>>,
                 << << <<s200, Response(JsonOf(ObjectSchema(<< <<nName, StringSchema>> >>)))>>,
                       <<s404, Response(JsonOf(ObjectSchema(<< <<nMsg, StringSchema>> >>)))>>
                    >> >>),
       Operation(pathPetId, mGET, nGetUPet, <<nPetTag>>, <<>>, <<IdParam>>,
                 << << <<s200, Response(JsonOf(ObjectSchema(<< <<nName, StringSchema>> >>)))>>,
                       <<s204, Response(<<>>)>> >> >>),
       Operation(pathPetsId, mDELETE, <<>>, <<nPetTag>>, <<>>, <<IdParam>>,
                 << << <<s204, Response(<<>>)>> >> >>),
       Operation(pathPing, mPOST, <<>>, <<nPetTag>>, <<>>, <<>>, <<>>),
       Operation(pathPets, mPOST, nCreatePet, <<>>,
                 <<[ref |-> <<>>, nil |-> FALSE, content |-> JsonOf(ObjectSchema(<<>>))]>>,
                 <<>>,
                 << << <<s200, Response(JsonOf(ObjectSchema(<<>>)))>>,
                       <<s400, Response(JsonOf(ObjectSchema(<<>>)))>> >> >>) >>

\* the orders a map of n entries can be visited in
Orders(n) == {p \in [1..n -> 1..n] : \A i, j \in 1..n : p[i] = p[j] => i = j}

ResponsesOf(operation) ==
    IF operation.Responses = <<>> THEN <<>> ELSE operation.Responses[1]

\* the operation as a run sees it when its responses are visited in order
Visited(operation, order) ==
    IF operation.Responses = <<>> THEN operation
    ELSE [operation EXCEPT !.Responses =
             << [i \in DOMAIN order |-> operation.Responses[1][order[i]]] >>]

Identity(n) == [i \in 1..n |-> i]

(***************************************************************************)
(* The run: Convert, then Generate, as main's Action sequences them        *)
(***************************************************************************)
MaxComponents == 2
MaxOps == 2

\* one iteration of the loop over components.schemas: <<ok, f>>
ComponentStep(f, c) ==
    IF target = "thrift"
    THEN ThriftComponent(f, ComponentMenu[c].name, ComponentMenu[c].schema)
    ELSE ProtoComponent(f, ComponentMenu[c].name, ComponentMenu[c].schema)

\* one iteration of the loop over the operations of the paths: <<f, result>>
OperationStep(f, o, order) ==
    With(Visited(OpMenu[o], order),
         LAMBDA operation :
             IF target = "thrift" THEN ThriftOperation(f, operation)
             ELSE ProtoOperation(f, operation))

\* Generate: <<text, IR root after it>>
GenerateStep(f) ==
    IF target = "thrift" THEN <<ThriftGenerate(f), f>>
    ELSE <<ProtoGenerate(f), protoSortedFile(f)>>

Init ==
    /\ target \in {"thrift", "proto"}
    /\ naming \in BOOLEAN
    /\ apiOption \in BOOLEAN
    /\ target = "proto" => naming /\ apiOption
    /\ docTags = <<nPetTag>>
    /\ file = EmptyFile
    /\ pc = IF target = "thrift" THEN "tags" ELSE "components"
    /\ visitedC = <<>>
    /\ visitedO = <<>>
    /\ last = NoResult
    /\ out = <<>>
    /\ sink = "none"

\* ThriftConverter.Convert: convertTagsToThriftServices
ConvertTags ==
    /\ pc = "tags"
    /\ file' = convertTagsToThriftServices(file, docTags)
    /\ pc' = "components"
    /\ UNCHANGED <<target, naming, apiOption, docTags, visitedC, visitedO, last, out, sink>>

\* the loop over components.schemas going on to the next schema after a
\* lowering that failed
ConvertComponentAnyway(c) ==
    /\ pc = "components"
    /\ Len(visitedC) < MaxComponents
    /\ \A i \in DOMAIN visitedC : visitedC[i] # c
    /\ \E r \in {ComponentStep(file, c)} : file' = r[2]
    /\ pc' = "components"
    /\ visitedC' = Append(visitedC, c)
    /\ UNCHANGED <<target, naming, apiOption, docTags, visitedO, last, out, sink>>

\* the loop over components.schemas visits component c next; an error of the
\* lowering is returned by Convert, and main ends in log.Fatalf
ConvertComponent(c) ==
    /\ pc = "components"
    /\ Len(visitedC) < MaxComponents
    /\ \A i \in DOMAIN visitedC : visitedC[i] # c
    /\ \E r \in {ComponentStep(file, c)} :
          /\ file' = r[2]
          /\ pc' = IF r[1] THEN "components" ELSE "failed"
    /\ visitedC' = Append(visitedC, c)
    /\ UNCHANGED <<target, naming, apiOption, docTags, visitedO, last, out, sink>>

\* the loop over components.schemas has visited every schema of the document
EndComponents ==
    /\ pc = "components"
    /\ pc' = "paths"
    /\ UNCHANGED <<target, naming, apiOption, docTags, file, visitedC, visitedO, last, out,
                   sink>>

\* the loop over the paths visits operation o next, its responses in order
ConvertOperation(o, order) ==
    /\ pc = "paths"
    /\ Len(visitedO) < MaxOps
    /\ \A i \in DOMAIN visitedO : visitedO[i][1] # o
    /\ \E r \in {OperationStep(file, o, order)} :
          /\ file' = r[1]
          /\ last' = r[2]
          /\ pc' = IF r[2].ok THEN "paths" ELSE "failed"
    /\ visitedO' = Append(visitedO, <<o, order>>)
    /\ UNCHANGED <<target, naming, apiOption, docTags, visitedC, out, sink>>

\* Convert has returned; main calls Generate on the IR
Generate ==
    /\ pc = "paths"
    /\ \E g \in {GenerateStep(file)} :
          /\ out' = g[1]
          /\ file' = g[2]
    /\ pc' = "write"
    /\ UNCHANGED <<target, naming, apiOption, docTags, visitedC, visitedO, last, sink>>

\* main: os.Create, WriteString and the deferred Close.  A failed Create or
\* WriteString ends in log.Fatalf, which exits without running the deferred
\* Close.
WriteOutput(outcome) ==
    /\ pc = "write"
    /\ sink' = CASE outcome = "create fails" -> "none"
                 [] outcome = "write fails" -> "open"
                 [] OTHER -> "closed"
    /\ pc' = IF outcome = "written" THEN "done" ELSE "failed"
    /\ UNCHANGED <<target, naming, apiOption, docTags, file, visitedC, visitedO, last, out>>

Next ==
    \/ ConvertTags
    \/ \E c \in DOMAIN ComponentMenu : ConvertComponent(c)
    \/ EndComponents
    \/ \E o \in DOMAIN OpMenu :
          \E order \in Orders(Len(ResponsesOf(OpMenu[o]))) : ConvertOperation(o, order)
    \/ Generate
    \/ \E outcome \in {"create fails", "write fails", "written"} : WriteOutput(outcome)

Spec == Init /\ [][Next]_vars

(***************************************************************************)
(* Lowering on its own: Convert run on documents whose component schemas   *)
(* cover every kind of schema node (enumerations, untyped nodes, number    *)
(* formats, the three combinators, references that form cycles) and whose  *)
(* operations cover every kind of parameter and route.                     *)
(***************************************************************************)
nOrder == <<"O","r","d","e","r">>
nState == <<"s","t","a","t","e">>
nLevel == <<"L","e","v","e","l">>
nUntyped == <<"U","n","t","y","p","e","d">>
nCount == <<"C","o","u","n","t">>
nRatio == <<"R","a","t","i","o">>
nChoice == <<"C","h","o","i","c","e">>
nEither == <<"E","i","t","h","e","r">>
nBoth == <<"B","o","t","h">>
nNode == <<"N","o","d","e">>
nNext == <<"n","e","x","t">>
nKids == <<"k","i","d","s">>
nLink == <<"L","i","n","k">>
nLoop == <<"L","o","o","p">>
nInvoice == <<"I","n","v","o","i","c","e">>
nDay == <<"D","a","y">>
nNew == <<"N","E","W">>
nPaid == <<"P","A","I","D">>
nOne == <<"1">>
nTwo == <<"2">>
sInt16 == <<"i","n","t","1","6">>
sDecimal == <<"d","e","c","i","m","a","l">>
nItemTag == <<"i","t","e","m">>
nGetItem == <<"g","e","t","I","t","e","m">>
nListItems == <<"l","i","s","t","I","t","e","m","s">>
nPutItem == <<"p","u","t","I","t","e","m">>
nFindPet == <<"f","i","n","d","P","e","t">>
nTwice == <<"t","w","i","c","e">>
nPetDashId == <<"p","e","t","-","i","d">>
nStatusParam == <<"s","t","a","t","u","s">>
pathItemsId == <<"/","i","t","e","m","s","/","{","i","d","}">>
pathItems == <<"/","i","t","e","m","s">>
pathPetsPetId == <<"/","p","e","t","s","/","{","p","e","t","-","i","d","}">>
inQuery == <<"q","u","e","r","y">>
inHeader == <<"h","e","a","d","e","r">>
mPUT == <<"P","U","T">>
mTRACE == <<"T","R","A","C","E">>
nCheckOrder == <<"c","h","e","c","k","O","r","d","e","r">>
pathOrders == <<"/","o","r","d","e","r","s">>
nTraceItems == <<"t","r","a","c","e","I","t","e","m","s">>
nPickItem == <<"p","i","c","k","I","t","e","m">>
nFilter == <<"f","i","l","t","e","r">>

MaxLowerings == 2

\* components.schemas of the documents lowered here
SchemaMenu ==
    << [name |-> nOrder,
        schema |-> ObjectSchema(<< <<nState,
                                     [StringSchema EXCEPT !.enum = <<nNew, nPaid>>]>> >>)],
       [name |-> nLevel, schema |-> [SchemaOf("integer") EXCEPT !.enum = <<nOne, nTwo>>]],
       [name |-> nUntyped, schema |-> SchemaOf("")],
       [name |-> nCount, schema |-> [SchemaOf("integer") EXCEPT !.format = sInt16]],
       [name |-> nRatio, schema |-> [SchemaOf("number") EXCEPT !.format = sDecimal]],
       [name |-> nChoice,
        schema |-> [SchemaOf("") EXCEPT !.oneOf = <<StringSchema, RefTo(nPet)>>]],
       [name |-> nEither,
        schema |-> [SchemaOf("") EXCEPT !.anyOf = <<StringSchema, Int64Schema>>]],
       [name |-> nBoth,
        schema |-> [SchemaOf("") EXCEPT !.allOf =
                       << ObjectSchema(<< <<nName, StringSchema>>, <<nId, Int64Schema>> >>),
                          ObjectSchema(<< <<nName, StringSchema>> >>) >>]],
       [name |-> nNode,
        schema |-> ObjectSchema(<< <<nNext, RefTo(nNode)>>,
                                   <<nKids, [SchemaOf("array") EXCEPT
                                                !.items = <<RefTo(nNode)>>]>> >>)],
       [name |-> nLink, schema |-> RefTo(nNode)],
       [name |-> nLoop, schema |-> [SchemaOf("") EXCEPT !.oneOf = <<RefTo(nLoop)>>]],
       [name |-> nInvoice,
        schema |-> ObjectSchema(<< <<nState,
                                     [StringSchema EXCEPT !.enum = <<nNew, nPaid>>]>> >>)],
       [name |-> nDay,
        schema |-> [StringSchema EXCEPT !.format = sDate, !.enum = <<nNew, nPaid>>]] >>

\* openapi3.Parameter
Param(name, in, schema) == [Name |-> name, In |-> in, Schema |-> <<schema>>]

\* openapi3.RequestBodyRef that is a reference; the lowering returns before it
\* reads what the reference resolves to
BodyRef(name) == [ref |-> RefPrefix \o name, nil |-> TRUE, content |-> <<>>]

OkResponses == << << <<s200, Response(JsonOf(RefTo(nPet)))>> >> >>

\* the operations of the documents lowered here; the responses of an
\* operation are listed in the order the run visits them
ParamOpMenu ==
    << Operation(pathItemsId, mGET, nGetItem, <<nItemTag>>, <<>>, <<IdParam>>, OkResponses),
       Operation(pathItems, mGET, nListItems, <<nItemTag>>, <<>>,
                 << Param(nStatusParam, inQuery,
                          [StringSchema EXCEPT !.enum = <<nNew, nPaid>>]),
                    Param(nName, inHeader, StringSchema) >>,
                 OkResponses),
       Operation(pathItemsId, mPUT, nPutItem, <<nItemTag>>, <<BodyRef(nPet)>>, <<IdParam>>,
                 OkResponses),
       Operation(pathPetsPetId, mGET, nFindPet, <<nItemTag>>, <<>>,
                 << Param(nPetDashId, inPath, StringSchema) >>, OkResponses),
       Operation(pathItemsId, mPOST, nTwice, <<nItemTag>>, <<>>,
                 << IdParam, Param(nId, inQuery, StringSchema),
                    Param(nNode, inQuery, RefTo(nNode)) >>,
                 OkResponses),
       Operation(pathItems, mTRACE, nTraceItems, <<nItemTag>>, <<>>, <<>>, OkResponses),
       Operation(pathOrders, mGET, nCheckOrder, <<nItemTag>>, <<>>, <<>>,
                 << << <<s204, Response(<<>>)>>,
                       <<s200, Response(JsonOf(ObjectSchema(<< <<nName, StringSchema>> >>)))>>,
                       <<s404, Response(JsonOf(ObjectSchema(<< <<nMsg, StringSchema>> >>)))>>
                    >> >>),
       Operation(pathItems, mDELETE, nPickItem, <<nItemTag>>, <<>>,
                 << Param(nFilter, inQuery,
                          [SchemaOf("") EXCEPT !.oneOf = <<StringSchema, RefTo(nPet)>>]) >>,
                 OkResponses) >>

\* ConvertSchemaToThriftType / ConvertSchemaToProtoType called on a component
\* schema the way the loop over components.schemas calls it
LowerDirect(f, name, schemaRef) ==
    IF target = "thrift"
    THEN ConvertSchemaToThriftType(schemaRef, applyNamingOption(name), FALSE, f)
    ELSE ConvertSchemaToProtoType(schemaRef, name, <<>>, f)

\* one iteration of the loop over components.schemas on SchemaMenu: <<ok, f>>
SchemaStep(f, s) ==
    IF target = "thrift"
    THEN ThriftComponent(f, SchemaMenu[s].name, SchemaMenu[s].schema)
    ELSE ProtoComponent(f, SchemaMenu[s].name, SchemaMenu[s].schema)

\* one iteration of the loop over the operations on ParamOpMenu: <<f, result>>
ParamOpStep(f, o) ==
    IF target = "thrift" THEN ThriftOperation(f, ParamOpMenu[o])
    ELSE ProtoOperation(f, ParamOpMenu[o])

\* the converter as main constructs it with the api option requested; the
\* document declares no tags, and either component schemas only (Convert
\* starts in their loop) or paths only (Convert arrives at the paths loop with
\* nothing registered)
LoweringInit ==
    /\ target \in {"thrift", "proto"}
    /\ naming \in BOOLEAN
    /\ apiOption = TRUE
    /\ target = "proto" => naming
    /\ docTags = <<>>
    /\ file = EmptyFile
    /\ pc \in {"components", "paths"}
    /\ visitedC = <<>>
    /\ visitedO = <<>>
    /\ last = NoResult
    /\ out = <<>>
    /\ sink = "none"

\* the loop over components.schemas visits schema s next; out keeps what the
\* lowering of the schema itself returned
LowerSchema(s) ==
    /\ pc = "components"
    /\ Len(visitedC) < MaxLowerings
    /\ \A i \in DOMAIN visitedC : visitedC[i] # s
    /\ \E r \in {SchemaStep(file, s)} :
          /\ file' = r[2]
          /\ pc' = IF r[1] THEN "components" ELSE "failed"
    /\ \E d \in {LowerDirect(file, SchemaMenu[s].name, SchemaMenu[s].schema)} :
          out' = <<[kind |-> d.kind, v |-> d.v]>>
    /\ visitedC' = Append(visitedC, s)
    /\ UNCHANGED <<target, naming, apiOption, docTags, visitedO, last, sink>>

\* the loop over the paths visits operation o next
LowerOperation(o) ==
    /\ pc = "paths"
    /\ Len(visitedO) < MaxLowerings
    /\ \A i \in DOMAIN visitedO : visitedO[i] # o
    /\ \E r \in {ParamOpStep(file, o)} :
          /\ file' = r[1]
          /\ last' = r[2]
          /\ pc' = IF r[2].ok THEN "paths" ELSE "failed"
    /\ visitedO' = Append(visitedO, o)
    /\ UNCHANGED <<target, naming, apiOption, docTags, visitedC, out, sink>>

LoweringNext ==
    \/ \E s \in DOMAIN SchemaMenu : LowerSchema(s)
    \/ \E o \in DOMAIN ParamOpMenu : LowerOperation(o)

SpecLowering == LoweringInit /\ [][LoweringNext]_vars

(***************************************************************************)
(* The declaration registry on its own: structs are registered in any      *)
(* order, either given directly or lowered from an object schema of the    *)
(* component menu, as the converters do whenever two lowerings arrive at   *)
(* one struct name.                                                        *)
(***************************************************************************)
MaxRegs == 3

RegNames == {nPet, nOwner}

\* the field lists registered structs come with: none, one field, a field
\* whose name is taken by a field of another type next to a new one, the
\* same names in the other order, and one name twice
RegFieldLists ==
    { <<>>,
      <<NewField(nName, sString)>>,
      <<NewField(nName, sI64), NewField(nId, sI64)>>,
      <<NewField(nId, sString), NewField(nName, sString)>>,
      <<NewField(nId, sI64), NewField(nId, sString)>> }

\* a struct of the target's IR with the given fields
RegStruct(name, fields) ==
    IF target = "thrift" THEN [NewStruct(name) EXCEPT !.Fields = fields]
    ELSE [NewMessage(name) EXCEPT !.Fields = fields]

\* addMessageToThrift / addMessageToProto, by target
Register(f, message) ==
    IF target = "thrift" THEN addMessageToThrift(f, message)
    ELSE addMessageToProto(f, message)

\* the lowering the component loop makes of component c
LowerComponent(f, c) ==
    IF target = "thrift"
    THEN ConvertSchemaToThriftType(ComponentMenu[c].schema,
                                   applyNamingOption(ComponentMenu[c].name), FALSE, f)
    ELSE ConvertSchemaToProtoType(ComponentMenu[c].schema, ComponentMenu[c].name, <<>>, f)

\* what a registration step records: the struct that came in, the structs
\* registered before it, and how often in a row the same lowering has been
\* registered starting from a registry without its name
Registered(step, message, before, times) ==
    [step |-> step, name |-> message.Name, fields |-> message.Fields,
     before |-> before, times |-> times]

RegistryInit ==
    /\ target \in {"thrift", "proto"}
    /\ naming \in BOOLEAN
    /\ apiOption = (target = "proto")
    /\ target = "proto" => naming
    /\ docTags = <<>>
    /\ file = EmptyFile
    /\ pc = "registry"
    /\ visitedC = <<>>
    /\ visitedO = <<>>
    /\ last = Registered("none", NewStruct(<<>>), <<>>, "none")
    /\ out = <<>>
    /\ sink = "none"

\* addMessageToThrift / addMessageToProto called with a struct
RegisterStruct(name, fields) ==
    /\ pc = "registry"
    /\ Len(visitedC) < MaxRegs
    /\ \E m \in {RegStruct(name, fields)} :
          /\ file' = Register(file, m)
          /\ last' = Registered("register", m, file.Structs, "none")
          /\ visitedC' = Append(visitedC, m.Name)
    /\ UNCHANGED <<target, naming, apiOption, docTags, pc, visitedO, out, sink>>

\* the body of the component loop for an object schema: the schema is
\* lowered under the component's name and the struct is registered
LowerAndRegister(c) ==
    /\ pc = "registry"
    /\ Len(visitedC) < MaxRegs
    /\ ComponentMenu[c].schema.type = "object"
    /\ \E r \in {LowerComponent(file, c)} :
          /\ r.kind = "struct"
          /\ file' = ComponentStep(file, c)[2]
          /\ last' = Registered("lower", r.v, file.Structs,
                        IF ~HasName(file.Structs, r.v.Name) THEN "once"
                        ELSE IF last.step = "lower" /\ last.name = r.v.Name
                                /\ last.times \in {"once", "twice"}
                        THEN "twice"
                        ELSE "none")
          /\ visitedC' = Append(visitedC, r.v.Name)
    /\ UNCHANGED <<target, naming, apiOption, docTags, pc, visitedO, out, sink>>

RegistryNext ==
    \/ \E name \in RegNames : \E fields \in RegFieldLists :
          RegisterStruct(name, fields)
    \/ \E c \in DOMAIN ComponentMenu : LowerAndRegister(c)

SpecRegistry == RegistryInit /\ [][RegistryNext]_vars

(***************************************************************************)
(* Properties of the registry                                              *)
(***************************************************************************)
\* the incoming fields whose Name the existing fields do not have
NewFields(incoming, existing) ==
    SelectSeq(incoming, LAMBDA x : ~HasName(existing, x.Name))

\* the step just taken registered a struct under a Name that was registered
MergedLast ==
    pc = "registry" /\ last.step \in {"register", "lower"}
    /\ HasName(last.before, last.name)

\* C1: registering a struct whose Name is already registered leaves the
\* number of structs unchanged, leaves every field that was registered
\* unchanged in content and position (it never replaces one), and appends to
\* the struct of that Name exactly the incoming fields whose Name that struct
\* did not have, in incoming order.
C1_MergeKeepsAndAppends ==
    MergedLast =>
        /\ Len(file.Structs) = Len(last.before)
        /\ \A j \in DOMAIN last.before :
              /\ file.Structs[j].Name = last.before[j].Name
              /\ SubSeq(file.Structs[j].Fields, 1, Len(last.before[j].Fields))
                    = last.before[j].Fields
              /\ SubSeq(file.Structs[j].Fields, Len(last.before[j].Fields) + 1,
                        Len(file.Structs[j].Fields))
                    = IF j = FirstNamed(last.before, last.name)
                      THEN NewFields(last.fields, last.before[j].Fields)
                      ELSE <<>>

\* a merge in which one incoming field found its Name taken by a field of
\* another type, another incoming field was new, and a second struct was
\* registered
C1_MergeSeen ==
    /\ MergedLast
    /\ last.step = "register"
    /\ Len(last.before) > 1
    /\ \E k \in DOMAIN last.fields :
          \E e \in DOMAIN last.before[FirstNamed(last.before, last.name)].Fields :
             /\ last.before[FirstNamed(last.before, last.name)].Fields[e].Name
                   = last.fields[k].Name
             /\ last.before[FirstNamed(last.before, last.name)].Fields[e].Type
                   # last.fields[k].Type
    /\ \E k \in DOMAIN last.fields :
          ~HasName(last.before[FirstNamed(last.before, last.name)].Fields,
                   last.fields[k].Name)

\* C2: lowering one object schema twice under one name and registering both
\* results leaves exactly one struct of that name, whose field names are
\* those of a single lowering and which has no two fields of the same Name.
C2_TwiceIsOnce ==
    (pc = "registry" /\ last.step = "lower" /\ last.times = "twice") =>
        /\ Cardinality({i \in DOMAIN file.Structs : file.Structs[i].Name = last.name}) = 1
        /\ \A i \in DOMAIN file.Structs :
              file.Structs[i].Name = last.name =>
                 /\ {file.Structs[i].Fields[k].Name : k \in DOMAIN file.Structs[i].Fields}
                       = {last.fields[k].Name : k \in DOMAIN last.fields}
                 /\ \A a, b \in DOMAIN file.Structs[i].Fields :
                       file.Structs[i].Fields[a].Name = file.Structs[i].Fields[b].Name
                          => a = b

(***************************************************************************)
(* Properties of whole runs                                                *)
(***************************************************************************)
RECURSIVE ConvertComponents(_, _)
\* the loop over components.schemas visiting the components cs in order:
\* <<ok, f>>
ConvertComponents(f, cs) ==
    IF cs = <<>> THEN <<TRUE, f>>
    ELSE With(ComponentStep(f, Head(cs)),
              LAMBDA r : IF r[1] THEN ConvertComponents(r[2], Tail(cs)) ELSE r)

RECURSIVE ConvertOperations(_, _)
\* the loop over the paths visiting the operations os in order, each a pair
\* <<operation, order of its responses>>: <<ok, f>>
ConvertOperations(f, os) ==
    IF os = <<>> THEN <<TRUE, f>>
    ELSE With(OperationStep(f, Head(os)[1], Head(os)[2]),
              LAMBDA r : IF r[2].ok THEN ConvertOperations(r[1], Tail(os))
                         ELSE <<FALSE, r[1]>>)

\* Convert as a whole for a document visited in the given orders: <<ok, f>>
ConvertAll(cs, os) ==
    With(ConvertComponents(IF target = "thrift"
                           THEN convertTagsToThriftServices(EmptyFile, docTags)
                           ELSE EmptyFile, cs),
         LAMBDA c : IF c[1] THEN ConvertOperations(c[2], os) ELSE c)

RECURSIVE Ascending(_)
\* the numbers of a set in ascending order
Ascending(S) ==
    IF S = {} THEN <<>>
    ELSE With(CHOOSE x \in S : \A y \in S : x <= y,
              LAMBDA x : <<x>> \o Ascending(S \ {x}))

\* the document of this run visited in the order of the menus, every
\* operation's responses in the order they are written in
MenuOrderComponents == Ascending({visitedC[i] : i \in DOMAIN visitedC})

MenuOrderOperations ==
    With(Ascending({visitedO[i][1] : i \in DOMAIN visitedO}),
         LAMBDA os : [i \in DOMAIN os |->
                         <<os[i], Identity(Len(ResponsesOf(OpMenu[os[i]])))>>])

\* C3: two complete runs on one document produce the same output text,
\* whatever order they visit the component schemas, the operations and each
\* operation's responses in: the text of this run is the text of the run that
\* visits the same document in the order of the menus.
C3_OutputIndependentOfVisitingOrder ==
    pc = "write" =>
        With(ConvertAll(MenuOrderComponents, MenuOrderOperations),
             LAMBDA c : c[1] /\ out = GenerateStep(c[2])[1])

\* no service of the list holds two methods of one Name
MethodNamesUnique(services) ==
    \A i \in DOMAIN services :
        \A a, b \in DOMAIN services[i].Methods :
            services[i].Methods[a].Name = services[i].Methods[b].Name => a = b

\* the service an operation's method goes to holds a method of that Name
MethodRegistered(services, serviceName, methodName) ==
    /\ HasName(services, serviceName)
    /\ HasName(services[FirstNamed(services, serviceName)].Methods, methodName)

\* C4: after any sequence of operation lowerings no service contains two
\* methods with the same Name, and when an operation lowers to a method name
\* already present in its service the services and their method lists are
\* left as they were, so the method registered first keeps its input type,
\* output type and options.
C4_FirstMethodWins ==
    [][ /\ MethodNamesUnique(file'.Services)
        /\ (pc = "paths" /\ visitedO' # visitedO /\ last'.ok
            /\ MethodRegistered(file.Services, last'.service, last'.method))
              => file'.Services = file.Services ]_vars

\* an operation was lowered to a method name its service already held, and
\* the method kept there has another output type than this operation's
C4_DuplicateSkipped ==
    /\ pc = "paths"
    /\ Len(visitedO) > 1
    /\ last.ok
    /\ ~last.added
    /\ MethodRegistered(file.Services, last.service, last.method)
    /\ \E j \in DOMAIN file.Services[FirstNamed(file.Services, last.service)].Methods :
          /\ file.Services[FirstNamed(file.Services, last.service)].Methods[j].Name
                = last.method
          /\ file.Services[FirstNamed(file.Services, last.service)].Methods[j].Output
                # last.output

(***************************************************************************)
(* Properties of the text                                                  *)
(***************************************************************************)
\* the line that opens the declaration the field line at i belongs to: the
\* nearest line before i that is no field line
HeaderPos(text, i) ==
    CHOOSE h \in 1..(i - 1) :
        /\ text[h].kind # "field"
        /\ \A k \in (h + 1)..i : text[k].kind = "field"

\* C5: for every struct/message emitted by the serializer, on both targets,
\* the fields are emitted in ascending order of field Name and numbered 1..n
\* in that order.
C5_FieldsSortedThenNumbered ==
    pc = "write" =>
        \A i \in DOMAIN out :
            (out[i].kind = "field"
             /\ out[HeaderPos(out, i)].kind \in {"struct", "message"})
            => /\ out[i].index = i - HeaderPos(out, i)
               /\ out[i].index > 1 => ~StrLess(out[i].name, out[i - 1].name)

\* the lines that open the top-level enums, structs/messages and services
TopLevel(text) ==
    SelectSeq(text, LAMBDA l : l.index = 0
                               /\ l.kind \in {"enum", "struct", "message", "service"})

GroupOf(kind) ==
    CASE kind = "enum" -> 1
      [] kind \in {"struct", "message"} -> 2
      [] kind = "service" -> 3

\* C6: in the serializer's output, on both targets, top-level declarations
\* appear grouped as enums, then structs, then services, and within each
\* group in ascending order of Name, whatever order they were registered in.
C6_DeclarationsGroupedAndSorted ==
    pc = "write" =>
        With(TopLevel(out),
             LAMBDA d :
                 \A i \in 1..(Len(d) - 1) :
                     \/ GroupOf(d[i].kind) < GroupOf(d[i + 1].kind)
                     \/ /\ GroupOf(d[i].kind) = GroupOf(d[i + 1].kind)
                        /\ ~StrLess(d[i + 1].name, d[i].name))

(***************************************************************************)
(* Properties of operation lowering                                        *)
(***************************************************************************)
\* the operation visited last, as the run saw it
LastOperation ==
    Visited(OpMenu[visitedO[Len(visitedO)][1]], visitedO[Len(visitedO)][2])

\* an operation has just been lowered without an error
JustLowered == pc = "paths" /\ Len(visitedO) > 0 /\ last.ok

\* the imports of the empty type: google/protobuf/empty.proto for proto; the
\* thrift converter names no file for it, so any include counts for thrift
EmptyTypeImports(f) ==
    SelectSeq(f.Imports, LAMBDA i : target = "thrift" \/ i = EmptyProtoFile)

\* C7: lowering an operation that has neither a request body nor parameters
\* yields the target's canonical empty type as the method's request type
\* (google.protobuf.Empty for proto, a type of some name for thrift), and after
\* it the file's import list contains the empty-type import exactly once.
C7_EmptyRequestCollapse ==
    (JustLowered /\ LastOperation.RequestBody = <<>> /\ LastOperation.Parameters = <<>>)
    => /\ Len(last.input) = 1
       /\ last.input[1] # <<>>
       /\ target = "proto" => last.input[1] = EmptyMessage
       /\ Len(EmptyTypeImports(file)) = 1

\* the empty/void type of the target
VoidType == IF target = "proto" THEN EmptyMessage ELSE sVoid

NonTrivialOnly(operation) ==
    [operation EXCEPT !.Responses =
        <<SelectSeq(operation.Responses[1], LAMBDA r : ~IsTrivialResponse(r[2]))>>]

\* the output type of the method an operation lowers to
OutputOf(operation) ==
    (IF target = "thrift" THEN ThriftOperation(EmptyFile, operation)
     ELSE ProtoOperation(EmptyFile, operation))[2].output

\* C9: when exactly one of an operation's responses is non-trivial and its
\* other responses are trivial, the method's output type is the declaration
\* lowered from that one response, whatever order the responses are visited in.
C9_SingleResponseDirect ==
    (JustLowered /\ ResponseCount(ResponsesOf(LastOperation)) = 1)
    => last.output = OutputOf(NonTrivialOnly(LastOperation))

\* a response with a JSON body
HasJsonBody(resp) ==
    resp.ref = <<>> /\ ~resp.nil /\ \E i \in DOMAIN resp.content : resp.content[i][1] = AppJson

\* a name under the naming policy of the run: as written when the policy is
\* off, as written or in the policy's form when it is on
Policy(written, name) ==
    \/ name = written
    \/ naming /\ name \in {ToPascaleCase(written), ToSnakeCase(written),
                           protoToSnakeCase(written)}

\* the structs called name
Called(structs, name) == SelectSeq(structs, LAMBDA m : m.Name = name)

\* C10: lowering an operation with operation id X and two responses that
\* each have a JSON body (status codes s1 and s2) registers exactly one
\* wrapper struct named XResponse with exactly two fields named Response_s1
\* and Response_s2, each typed as a distinct per-status response struct that
\* is itself registered; the method's output type is XResponse.
C10_TwoResponsesWrapped ==
    (/\ JustLowered
     /\ LastOperation.OperationID # <<>>
     /\ Len(ResponsesOf(LastOperation)) = 2
     /\ \A i \in 1..2 : HasJsonBody(ResponsesOf(LastOperation)[i][2]))
    => /\ Policy(LastOperation.OperationID \o sResponse, last.output)
       /\ Len(Called(file.Structs, last.output)) = 1
       /\ With(Called(file.Structs, last.output)[1].Fields,
               LAMBDA w :
                   /\ Len(w) = 2
                   /\ \A i \in 1..2 :
                         \E k \in 1..2 :
                             Policy(sResponseU \o ResponsesOf(LastOperation)[i][1],
                                    w[k].Name)
                   /\ w[1].Name # w[2].Name
                   /\ w[1].Type # w[2].Type
                   /\ \A k \in 1..2 : HasName(file.Structs, w[k].Type))

(***************************************************************************)
(* Parameters and routes                                                   *)
(***************************************************************************)
\* the operation of ParamOpMenu lowered last
LastParamOp == ParamOpMenu[visitedO[Len(visitedO)]]

\* the declarations registered under one of the names
Registered2(structs, names) ==
    SelectSeq(structs, LAMBDA d : \E i \in DOMAIN names : d.Name = names[i])

\* field carries the option
Carries(field, option) == \E i \in DOMAIN field.Options : field.Options[i] = option

\* the binding a parameter is to be given: keyed by its location, valued by
\* its wire name
BindingOf(param) == NewOption(sApiDot \o param.In, Quoted(param.Name))

\* C11: every parameter of an operation that carries a schema yields a field
\* in the operation's registered request struct, and that field carries a
\* binding option keyed by the parameter's location and valued by its wire
\* name; no such parameter is dropped, whatever the kind of its schema, the
\* presence of a request body or the names of the other parameters.
C11_EveryParameterBound ==
    JustLowered =>
        \A k \in DOMAIN LastParamOp.Parameters :
            LastParamOp.Parameters[k].Schema # <<>> =>
                \E d \in {Registered2(file.Structs, last.input)} :
                    /\ Len(d) > 0
                    /\ \E j \in DOMAIN d[1].Fields :
                          Carries(d[1].Fields[j], BindingOf(LastParamOp.Parameters[k]))

RECURSIVE PlaceholdersRewritten(_)
\* a path with each "{name}" written as ":name" and nothing else changed
PlaceholdersRewritten(path) ==
    IF path = <<>> THEN <<>>
    ELSE IF Head(path) = "{" THEN <<":">> \o PlaceholdersRewritten(Tail(path))
    ELSE IF Head(path) = "}" THEN PlaceholdersRewritten(Tail(path))
    ELSE <<Head(path)>> \o PlaceholdersRewritten(Tail(path))

\* the methods of the named service that have the name
MethodsNamed(services, serviceName, methodName) ==
    LET all == Flatten([i \in DOMAIN services |->
                           IF services[i].Name = serviceName THEN services[i].Methods
                           ELSE <<>>])
    IN  SelectSeq(all, LAMBDA m : m.Name = methodName)

\* the verb-binding options among the options of a method
VerbBindings(options) ==
    SelectSeq(options, LAMBDA o : Len(o.Name) > 4 /\ SubSeq(o.Name, 1, 4) = sApiDot
                                  /\ ~(\E i \in DOMAIN o.Name : i > 4 /\ o.Name[i] = "."))

\* C12: every method registered for an operation with HTTP verb V on path P
\* carries exactly one verb-binding option keyed by V, whose value is P with
\* every {name} placeholder rewritten to :name and nothing else changed; for
\* GET on /items/{id} the value is /items/:id, and the request field for the
\* path parameter id carries a path-binding option whose value is "id".
C12_RouteBinding ==
    (JustLowered /\ last.added) =>
        \E ms \in {MethodsNamed(file.Services, last.service, last.method)} :
            /\ Len(ms) = 1
            /\ VerbBindings(ms[1].Options)
                  = << NewOption(sApiDot \o ToLowerAll(LastParamOp.method),
                                 Quoted(PlaceholdersRewritten(LastParamOp.path))) >>
            /\ (LastParamOp.method = mGET /\ LastParamOp.path = pathItemsId)
                  => /\ ms[1].Options[1].Value = Quoted(<<"/","i","t","e","m","s","/",":","i","d">>)
                     /\ \E d \in {Registered2(file.Structs, last.input)} :
                           /\ Len(d) > 0
                           /\ \E j \in DOMAIN d[1].Fields :
                                 Carries(d[1].Fields[j], NewOption(sApiDot \o inPath, Quoted(nId)))

(***************************************************************************)
(* Schema kinds                                                            *)
(***************************************************************************)
\* the component schema of SchemaMenu lowered last
LastSchema == SchemaMenu[visitedC[Len(visitedC)]]

\* a component schema has just been lowered without an error
JustLoweredSchema == pc = "components" /\ Len(visitedC) > 0

\* the elements of a sequence
Elements(seq) == {seq[i] : i \in DOMAIN seq}

\* a string, integer or number schema with a non-empty enum
IsEnumSchema(schemaRef) ==
    /\ schemaRef.ref = <<>>
    /\ ~schemaRef.nil
    /\ schemaRef.type \in {"string", "integer", "number"}
    /\ Len(schemaRef.enum) > 0

\* the enumerations declared at the top level or nested in the struct
EnumsSeenFrom(f, struct) ==
    Elements(f.Enums) \union
        (IF "Enums" \in DOMAIN struct THEN Elements(struct.Enums) ELSE {})

\* C13: a string, integer or number schema with a non-empty enum, lowered under
\* a parent struct P with proposed name n, yields an Enum named P.Name followed
\* by n with its first letter in upper case (the proposed name alone when there
\* is no parent), whose values are the schema's enum values in source order,
\* Index being the 0-based position; the owning struct gets a field for the
\* property typed by the Enum's Name (Order.state gives OrderState).
C13_EnumNamedAfterParent ==
    JustLoweredSchema =>
        /\ IsEnumSchema(LastSchema.schema) =>
              /\ out[1].kind = "enum"
              /\ out[1].v = NewEnum(LastSchema.name, LastSchema.schema.enum)
        /\ \A k \in DOMAIN LastSchema.schema.props :
              IsEnumSchema(LastSchema.schema.props[k][2]) =>
                  \E d \in {Registered2(file.Structs, <<LastSchema.name>>)} :
                      /\ Len(d) > 0
                      /\ \E n \in {d[1].Name \o
                                   ToUpperFirstLetter(LastSchema.schema.props[k][1])} :
                            /\ NewEnum(n, LastSchema.schema.props[k][2].enum)
                                  \in EnumsSeenFrom(file, d[1])
                            /\ \E j \in DOMAIN d[1].Fields : d[1].Fields[j].Type = n

\* a node that is not a reference, has no combinator and declares no type
IsUntyped(schemaRef) ==
    /\ schemaRef.ref = <<>>
    /\ ~schemaRef.nil
    /\ schemaRef.type = ""
    /\ schemaRef.oneOf = <<>> /\ schemaRef.allOf = <<>> /\ schemaRef.anyOf = <<>>

\* C14: lowering a schema node that is not a reference, has no combinator and
\* declares no type fails with the schema error "schema type is required"; it
\* never returns a Field whose Type is empty.
C14_UntypedIsAnError ==
    (Len(visitedC) > 0 /\ IsUntyped(LastSchema.schema)) =>
        /\ out[1].kind = "error"
        /\ out[1].v = SchemaTypeRequired

\* an integer whose declared format is neither int32 nor int64, or a number
\* whose declared format is neither float nor double
HasUnknownFormat(schemaRef) ==
    /\ schemaRef.ref = <<>>
    /\ ~schemaRef.nil
    /\ schemaRef.enum = <<>>
    /\ schemaRef.format # <<>>
    /\ \/ schemaRef.type = "integer" /\ schemaRef.format \notin {sInt32, sInt64}
       \/ schemaRef.type = "number" /\ schemaRef.format \notin {sFloat, sDouble}

\* C15: lowering an integer schema whose format is anything other than int32
\* or int64, or a number schema whose format is anything other than float or
\* double, fails with a schema error that aborts the conversion; the engine
\* does not fall back to the 64-bit integer or double type.
C15_UnknownFormatIsAnError ==
    (Len(visitedC) > 0 /\ HasUnknownFormat(LastSchema.schema)) =>
        /\ out[1].kind = "error"
        /\ pc = "failed"

\* the branches of a node that is a oneOf or an anyOf
ChoiceBranches(schemaRef) ==
    IF schemaRef.ref # <<>> \/ schemaRef.nil THEN <<>>
    ELSE IF schemaRef.oneOf # <<>> THEN schemaRef.oneOf
    ELSE schemaRef.anyOf

\* a branch lowered to a Field named by the name proposed for it
IsPlainBranch(schemaRef) ==
    /\ schemaRef.ref = <<>>
    /\ ~schemaRef.nil
    /\ schemaRef.type \in {"string", "integer", "number", "boolean"}
    /\ schemaRef.enum = <<>>

\* C16: a oneOf node and an anyOf node both lower to a Union (not a Struct),
\* the k-th branch being lowered with the proposed name
\* <proposedName>Option<k>.
C16_ChoiceIsAUnion ==
    (Len(visitedC) > 0 /\ ChoiceBranches(LastSchema.schema) # <<>>) =>
        /\ out[1].kind = "union"
        /\ Len(out[1].v.Fields) = Len(ChoiceBranches(LastSchema.schema))
        /\ \A k \in DOMAIN ChoiceBranches(LastSchema.schema) :
              IsPlainBranch(ChoiceBranches(LastSchema.schema)[k]) =>
                  out[1].v.Fields[k].Name
                      = applyNamingOption(LastSchema.name \o sOption \o Itoa(k))

RECURSIVE FirstOfEachName(_, _)
\* the names of a sequence in order, each kept the first time it occurs
FirstOfEachName(names, seen) ==
    IF names = <<>> THEN <<>>
    ELSE IF Head(names) \in seen THEN FirstOfEachName(Tail(names), seen)
    ELSE <<Head(names)>> \o FirstOfEachName(Tail(names), seen \union {Head(names)})

\* the names of the properties of the sub-schemas of an allOf, in source order
PropertyNames(schemas) ==
    Flatten([i \in DOMAIN schemas |->
                [k \in DOMAIN schemas[i].props |-> schemas[i].props[k][1]]])

\* the sub-schemas of a node that is an allOf
AllOfBranches(schemaRef) ==
    IF schemaRef.ref # <<>> \/ schemaRef.nil \/ schemaRef.oneOf # <<>> THEN <<>>
    ELSE schemaRef.allOf

\* C17: an allOf node lowers to a Struct whose fields are the union, by field
\* Name, of the fields lowered from the properties of each sub-schema in source
\* order; when two sub-schemas yield a field of the same Name the first is
\* kept, and the Struct never has two fields of one Name.
C17_AllOfMergesFields ==
    (Len(visitedC) > 0 /\ AllOfBranches(LastSchema.schema) # <<>>) =>
        /\ out[1].kind = "struct"
        /\ [j \in DOMAIN out[1].v.Fields |-> out[1].v.Fields[j].Name]
              = [j \in DOMAIN FirstOfEachName(PropertyNames(AllOfBranches(LastSchema.schema)), {})
                    |-> applyNamingOption(
                          FirstOfEachName(PropertyNames(AllOfBranches(LastSchema.schema)),
                                          {})[j])]
        /\ \A i, j \in DOMAIN out[1].v.Fields :
              out[1].v.Fields[i].Name = out[1].v.Fields[j].Name => i = j

(***************************************************************************)
(* References                                                              *)
(***************************************************************************)
\* names a reference of the documents may point to, registered or not
RefTargets == {nPet, nNode, nLoop, nBad}

\* the parents a reference may be lowered under: none, or a message
RefParents == {<<>>, <<NewMessage(nOrder)>>}

\* lowering a reference to name under parent, the proposed name being Link,
\* against the registry f
LowerReference(name, parent, f) ==
    IF target = "thrift"
    THEN ConvertSchemaToThriftType(RefTo(name), nLink, parent # <<>>, f)
    ELSE ConvertSchemaToProtoType(RefTo(name), nLink, parent, f)

ConvertReturned ==
    /\ ConvertComponents(IF target = "thrift"
                         THEN convertTagsToThriftServices(EmptyFile, docTags)
                         ELSE EmptyFile, visitedC)[1]
    /\ last.ok

\* C19: the output file is created only after Convert has returned
\* successfully: every step that creates, writes or closes the file is taken
\* from a run whose lowering returned no error, and a step in which the
\* lowering fails ends the run with no file created and no text generated, so
\* that no create or write event ever follows a failed lowering.
C19_NoOutputBeforeConvert ==
    [][ /\ (sink' # sink \/ (pc = "write" /\ pc' # "write")) => ConvertReturned
        /\ (pc # "write" /\ pc' = "failed")
              => (~ConvertReturned' /\ sink' = "none" /\ out' = <<>>) ]_vars

\* the lowering of the component Bad has failed and the run has ended with no
\* file created
C19_FailedBeforeCreate ==
    /\ pc = "failed"
    /\ \E i \in DOMAIN visitedC : visitedC[i] = 4
    /\ ~ConvertReturned
    /\ sink = "none"
    /\ out = <<>>

\* C20: once the output file has been opened it is closed on every exit path,
\* the path where writing fails included: no run ends with the file open.
C20_ClosedOnEveryExit == pc \in {"done", "failed"} => sink # "open"

(***************************************************************************)
(* Registry invariants                                                     *)
(***************************************************************************)
\* no two declarations of the list share a Name
UniqueNames(decls) ==
    \A i, j \in DOMAIN decls : decls[i].Name = decls[j].Name => i = j

\* C21: in every reachable registry state the declaration names are unique
\* within each kind: no two registered structs share a Name, no two registered
\* enums share a Name and no two registered unions share a Name.
C21_NamesUniquePerKind ==
    /\ UniqueNames(file.Structs)
    /\ UniqueNames(file.Enums)
    /\ UniqueNames(file.Unions)

\* the structs nested in the structs of a list (proto messages), the list
\* itself included
WithNested(structs) ==
    structs \o Flatten([i \in DOMAIN structs |->
                           IF "Messages" \in DOMAIN structs[i] THEN structs[i].Messages
                           ELSE <<>>])

\* C22: in every reachable registry state no registered struct or union
\* contains two fields with the same Name, whether it was built from object
\* properties (several properties that reference one named schema included),
\* for a request or a response, from a combinator, or by a merge.
C22_FieldNamesUnique ==
    /\ \A i \in DOMAIN WithNested(file.Structs) :
          UniqueNames(WithNested(file.Structs)[i].Fields)
    /\ \A i \in DOMAIN file.Unions : UniqueNames(file.Unions[i].Fields)

(***************************************************************************)
(* Serialization and naming                                                *)
(***************************************************************************)
\* C23: serialization does not modify the IR: after Generate returns, every
\* list of the IR File (enums, structs/messages, services, each struct's
\* fields, each service's methods, each node's options) holds the same elements
\* in the same order as before the call.
C23_GenerateLeavesIR ==
    [][ (pc = "paths" /\ pc' = "write") => file' = file ]_vars

(***************************************************************************)
(* The case conversions on their own: a name is drawn from the strings over *)
(* a small alphabet of letters, digits and separators, and the conversions  *)
(* are applied to it one after the other, as the converters do when a name  *)
(* that was converted once is passed on and converted again.                *)
(***************************************************************************)
MaxLen == 3

MaxApplications == 2

\* two lower-case letters, two capitals, a digit and the separators
NameAlphabet == {"a", "b", "A", "B", "1", " ", "-", "_", ".", "/"}

\* the strings over NameAlphabet of length n
NamesOfLen(n) == [1..n -> NameAlphabet]

\* utils.ToPascaleCase or utils.ToSnakeCase, by name
CaseOf(fn, name) == IF fn = "pascal" THEN ToPascaleCase(name) ELSE ToSnakeCase(name)

NamingInit ==
    /\ target = "thrift"
    /\ naming = TRUE
    /\ apiOption = FALSE
    /\ \E n \in 0..MaxLen : \E name \in NamesOfLen(n) : docTags = <<name>>
    /\ out = docTags[1]
    /\ file = EmptyFile
    /\ pc = "naming"
    /\ visitedC = <<>>
    /\ visitedO = <<>>
    /\ last = [fn |-> "none", before |-> <<>>]
    /\ sink = "none"

\* the conversion fn is applied to the name as it stands
ApplyCase(fn) ==
    /\ pc = "naming"
    /\ Len(visitedC) < MaxApplications
    /\ out' = CaseOf(fn, out)
    /\ last' = [fn |-> fn, before |-> out]
    /\ visitedC' = Append(visitedC, fn)
    /\ UNCHANGED <<target, naming, apiOption, docTags, file, pc, visitedO, sink>>

NamingNext == \E fn \in {"pascal", "snake"} : ApplyCase(fn)

SpecNaming == NamingInit /\ [][NamingNext]_vars

\* C24: the case-conversion functions are idempotent: for every identifier
\* string x over letters, digits, space, '-', '_', '.' and '/',
\* ToPascaleCase(ToPascaleCase(x)) = ToPascaleCase(x) and
\* ToSnakeCase(ToSnakeCase(x)) = ToSnakeCase(x): applying a conversion to a
\* name that the same conversion has just produced changes nothing.
C24_CaseConversionIdempotent ==
    (Len(visitedC) >= 2 /\ visitedC[Len(visitedC)] = visitedC[Len(visitedC) - 1])
        => out = last.before

\* the name the naming toggle gives a source-derived name: the policy output
\* with the naming convention on, the name with only its first letter
\* upper-cased with it off
ToggledName(name) == IF naming THEN ToPascaleCase(name) ELSE ToUpperCase(name)

\* the positions of a tag in the document's tag list
TagPositions(tag) == {k \in DOMAIN docTags : docTags[k] = tag}

\* C25: the naming toggle is applied uniformly: with the naming convention off
\* every emitted service and method name is the source-derived name with only
\* its first letter upper-cased, with it on the policy output; in particular
\* the service created from a tag of the document's tag list has the name of
\* the service derived for an operation that carries the tag.
C25_NamingUniform ==
    (JustLowered /\ target = "thrift" /\ Len(LastOperation.Tags) > 0) =>
        /\ last.service = ToggledName(LastOperation.Tags[1])
        /\ last.method = ToggledName(GetMethodName(LastOperation, LastOperation.path,
                                                   LastOperation.method))
        /\ \A k \in TagPositions(LastOperation.Tags[1]) :
              file.Services[k].Name = last.service

\* C26: the enumeration rule takes priority over the format rules: lowering a
\* string, integer or number schema with a non-empty enumeration list returns
\* an Enum declaration whatever its declared format is, a string with format
\* date, date-time, byte or binary included.
C26_EnumBeforeFormat ==
    (Len(visitedC) > 0 /\ IsEnumSchema(LastSchema.schema)) =>
        /\ out[1].kind = "enum"
        /\ Len(out[1].v.Values) = Len(LastSchema.schema.enum)

(***************************************************************************)
(* Responses                                                               *)
(***************************************************************************)
\* C27: when more than one of an operation's responses is non-trivial (a
\* reference, or has content or headers), the registered wrapper struct has
\* exactly one field per non-trivial response and none for the trivial ones,
\* whatever order the responses are visited in: a trivial response visited
\* first does not cause later responses to be left out.
C27_WrapperFieldPerResponse ==
    (JustLowered /\ ResponseCount(ResponsesOf(LastParamOp)) > 1) =>
        \E d \in {Registered2(file.Structs, <<last.output>>)} :
            /\ Len(d) = 1
            /\ Len(d[1].Fields) = ResponseCount(ResponsesOf(LastParamOp))

(***************************************************************************)
(* Referential integrity of the declarations an operation synthesizes      *)
(***************************************************************************)

\* the names of all declarations of the registry
DeclaredNames(f) ==
    {f.Structs[i].Name : i \in DOMAIN f.Structs}
        \cup {f.Enums[i].Name : i \in DOMAIN f.Enums}
        \cup {f.Unions[i].Name : i \in DOMAIN f.Unions}

\* ConvertSchemaToThriftType called on a parameter's schema the way the loop
\* over operation.Parameters calls it
LowerDirectParam(param) ==
    ConvertSchemaToThriftType(param.Schema[1], param.Name, TRUE, EmptyFile)

\* the names of the declarations the lowering of the operation's parameter
\* schemas synthesizes: structs, enums and unions returned for a schema that
\* is no reference
SynthesizedForParameters(operation) ==
    {r.v.Name : r \in
        {x \in {LowerDirectParam(operation.Parameters[k]) :
                    k \in {j \in DOMAIN operation.Parameters :
                              /\ operation.Parameters[j].Schema # <<>>
                              /\ operation.Parameters[j].Schema[1].ref = <<>>}} :
            x.kind \in {"struct", "enum", "union"}}}

\* the types of the fields of the registered structs
FieldTypes(f) ==
    UNION {{WithNested(f.Structs)[i].Fields[j].Type :
               j \in DOMAIN WithNested(f.Structs)[i].Fields} :
           i \in DOMAIN WithNested(f.Structs)}

\* C28: when an operation has been lowered for Thrift without an error, every
\* field of a registered struct whose Type is the name of a declaration
\* synthesized for one of the operation's parameters (a struct, enum or union
\* that did not come from a reference) names a declaration of the registry
C28_SynthesizedTypesDeclared ==
    (JustLowered /\ target = "thrift") =>
        \A t \in FieldTypes(file) \cap SynthesizedForParameters(LastParamOp) :
            t \in DeclaredNames(file)

(***************************************************************************)
(* Lowering comes before the duplicate-method check                        *)
(***************************************************************************)

\* the registry after generateRequestMessage and generateResponseMessage of
\* the loop body, before findOrCreateService and the duplicate check
LoweredBeforeCheck(f, operation) ==
    IF target = "thrift"
    THEN With(applyNamingOption(GetMethodName(operation, operation.path, operation.method)),
              LAMBDA methodName :
                  ThriftResponseAfter(operation, methodName,
                      generateRequestMessage(operation, methodName, f)).f)
    ELSE ProtoResponseAfter(operation, protoGenerateRequestMessage(operation, f)).f

\* the output type of some method of the services
IsOutputOfAMethod(services, name) ==
    \E i \in DOMAIN services :
        \E j \in DOMAIN services[i].Methods : services[i].Methods[j].Output = name

\* C29: when an operation lowers to a method its service already holds, the
\* step still leaves the registry as the lowering of the operation's request
\* and response made it (structs registered or merged), and the service list
\* with its method lists is the only part it is sure to leave as it was.
C29_LoweredBeforeDuplicateCheck ==
    [][ (pc = "paths" /\ visitedO' # visitedO /\ last'.ok /\ ~last'.added)
            => /\ file' = LoweredBeforeCheck(file,
                              Visited(OpMenu[visitedO'[Len(visitedO')][1]],
                                      visitedO'[Len(visitedO')][2]))
               /\ file'.Services = file.Services ]_vars

\* an operation was skipped as a duplicate method, and the response struct
\* its lowering registered is in the registry although no method returns it
\* and no field is of its type: only the skipped operation names it
C29_SkippedYetRegistered ==
    /\ JustLowered
    /\ Len(visitedO) > 1
    /\ ~last.added
    /\ HasName(file.Structs, last.output)
    /\ ~IsOutputOfAMethod(file.Services, last.output)
    /\ last.output \notin FieldTypes(file)

(***************************************************************************)
(* The services of a Thrift run: the tag list of the document varies, the  *)
(* operations are those of the run above                                   *)
(***************************************************************************)
MaxTags == 2

nStoreTag == <<"s","t","o","r","e">>

\* the tag names the documents here declare
TagMenu == <<nPetTag, nPet, nStoreTag>>

\* the tag lists of a document: one to MaxTags tags, no name listed twice
TagLists ==
    UNION {{[i \in 1..n |-> TagMenu[p[i]]] :
               p \in {q \in [1..n -> DOMAIN TagMenu] :
                         \A i, j \in 1..n : q[i] = q[j] => i = j}} :
           n \in 1..MaxTags}

\* the Thrift converter as main constructs it, for a document with some tag
\* list and no component schemas
TagsInit ==
    /\ target = "thrift"
    /\ naming \in BOOLEAN
    /\ apiOption = FALSE
    /\ docTags \in TagLists
    /\ file = EmptyFile
    /\ pc = "tags"
    /\ visitedC = <<>>
    /\ visitedO = <<>>
    /\ last = NoResult
    /\ out = <<>>
    /\ sink = "none"

\* ThriftConverter.Convert up to the end of the paths loop
TagsNext ==
    \/ ConvertTags
    \/ EndComponents
    \/ \E o \in DOMAIN OpMenu :
          \E order \in Orders(Len(ResponsesOf(OpMenu[o]))) : ConvertOperation(o, order)

SpecTags == TagsInit /\ [][TagsNext]_vars

\* C30: once Convert for Thrift has converted the tags and is in (or past)
\* the paths loop, no two services of the file have the same Name, whether
\* pre-created from the document's tag list or found or created while
\* lowering operations, under both naming modes.
C30_ServiceNamesUnique ==
    (target = "thrift" /\ pc = "paths") => UniqueNames(file.Services)

====
